---- MODULE Spec2Model ----
(***************************************************************************)
(* Hierarchical quota enforcement of the AI gateway: the chat-completions  *)
(* handler (routes/chat.ts) and the quota library (lib/quota.ts) over a    *)
(* get/put key-value store.  Every await of the code is one step of a      *)
(* request; requests run concurrently and share nothing but the store.     *)
(* Money is counted in whole units of a fixed small currency unit.         *)
(* QuotaRecord.last_update (a wall-clock stamp read by nothing) is left    *)
(* out of the records.                                                     *)
(***************************************************************************)
EXTENDS Integers, Sequences, FiniteSets, TLC

VARIABLES
  kv,          \* the quota records of GATEWAY_KV: quota key -> QuotaRecord or NULL
  now,         \* the month getCurrentMonth() returns
  orgConfigs,  \* org:{id}:config entries of GATEWAY_KV
  userConfigs, \* user:{id}:config entries of GATEWAY_KV
  vkey,        \* per request slot: the VirtualKey the auth middleware attached
  pc,          \* per request slot: the await the request is suspended at
  scope,       \* per request slot: the scope the check / the accrual is working on
  req,         \* per request slot: the validated request payload (its model)
  loc,         \* per request slot: the local variables of the handler and its callees
  resp,        \* per request slot: the response returned to the client
  hist,        \* per request slot: what has happened to the request so far, and
               \* the amounts all requests of the slot have written and whether
               \* a store operation of theirs has failed (history)
  left,        \* per request slot: requests still to arrive in this slot
  kv0,         \* the quota records of the initial state (history)
  vkeyConfigs, \* vkey:{hash}:config entries of GATEWAY_KV
  vkeyIds,     \* vkey:id:{key_id} entries of GATEWAY_KV (the key hash, "none" if absent)
  admin,       \* per admin slot: the admin request it is serving
  calc         \* a call of a function of lib/costs: its arguments and its result

adminVars == <<vkeyConfigs, vkeyIds, admin>>

chatVars == <<now, vkey, pc, scope, req, loc, resp, hist, left, kv0, calc>>

vars == <<kv, now, orgConfigs, userConfigs, vkey, pc, scope, req, loc, resp, hist, left, kv0,
          vkeyConfigs, vkeyIds, admin, calc>>

(***************************************************************************)
(* Bounds                                                                  *)
(***************************************************************************)
MaxCost == 2       \* largest cost of one request
MaxLimit == 2      \* largest limit / initial usage the enumerating specifications draw
MaxSeq == 3        \* requests one slot runs one after another

Procs == {"p1", "p2"}
Admins == {"a1", "a2"}
Scopes == {"vkey", "user", "org"}
KeyHashes == {"k1", "k2"}
KeyIds == {"id1", "id2"}
KeyIdOf(key_hash) == IF key_hash = "k1" THEN "id1" ELSE "id2"
Users == {"u1", "u2"}
Orgs == {"o1"}
ThisMonth == "2025-02"   \* the month of the wall clock
LastMonth == "2025-01"   \* the month stale records carry
FailureModes == {"fail-open", "fail-closed"}
Providers == {"openai"}
\* a model string, split at "/": one segment when the string has no "/"
Models == {<<"openai", "gpt-4o-mini">>, <<"anthropic", "claude-3-haiku">>, <<"gpt-4o-mini">>}

NULL == [null |-> TRUE]

UserConfig(org_id, limit) == [org_id |-> org_id, monthly_limit_usd |-> limit]

\* the validated payloads: a model, one message of eight characters, no max_tokens
Payloads == [model : Models, contentLength : {8}, max_tokens : {NULL}]

QuotaKeys == ({"vkey"} \X KeyHashes) \cup ({"user"} \X Users) \cup ({"org"} \X Orgs)

\* `vkey:${keyHash}:quota`, `user:${user}:quota`, `org:${orgId}:quota`
QuotaKey(s, vk) ==
  CASE s = "vkey" -> <<"vkey", vk.key_hash>>
    [] s = "user" -> <<"user", vk.user>>
    [] s = "org"  -> <<"org", vk.org_id>>

(***************************************************************************)
(* lib/quota.ts                                                            *)
(***************************************************************************)
getCurrentMonth == now

\* variant: every read resets
NeedsReset_Always(quotaRecord, currentMonth) == TRUE

\* variant: a record of another month is kept
NeedsReset_AbsentOnly(quotaRecord, currentMonth) == quotaRecord = NULL

\* line 17: no record, or a record of another month
NeedsReset(quotaRecord, currentMonth) ==
  quotaRecord = NULL \/ quotaRecord.current_month # currentMonth

\* variant: the synthesized record counts the read as a request
NewQuotaRecord_CountsRead(currentMonth) ==
  [month_usage_usd |-> 0, current_month |-> currentMonth, request_count |-> 1]

\* lines 18-23: the record get*QuotaRecord synthesizes
NewQuotaRecord(currentMonth) ==
  [month_usage_usd |-> 0, current_month |-> currentMonth, request_count |-> 0]

\* variant: the amount replaces the stored cost
Incremented_Overwrite(quotaRecord, costUsd) ==
  [quotaRecord EXCEPT !.month_usage_usd = costUsd, !.request_count = @ + 1]

\* variant: the request is not counted
Incremented_CostOnly(quotaRecord, costUsd) ==
  [quotaRecord EXCEPT !.month_usage_usd = @ + costUsd]

\* update*QuotaUsage between its read and its put
Incremented(quotaRecord, costUsd) ==
  [quotaRecord EXCEPT !.month_usage_usd = @ + costUsd, !.request_count = @ + 1]

\* variant: the user record is not read
NextScope_SkipUser(s) ==
  CASE s = "vkey" -> "org"
    [] s = "user" -> "org"
    [] s = "org"  -> "none"

\* checkReactiveQuotaLimit reads the three records in this order, all of them
\* before it compares any
NextScope(s) ==
  CASE s = "vkey" -> "user"
    [] s = "user" -> "org"
    [] s = "org"  -> "none"

\* variant: the limit itself is still admitted (> for >=)
CheckReactiveDecision_Strict(keyQuotaRecord, userQuotaRecord, orgQuotaRecord, keyMonthlyLimitUsd, userMonthlyLimitUsd, orgMonthlyBudgetUsd) ==
  LET base == [keyQuotaRecord |-> keyQuotaRecord,
               userQuotaRecord |-> userQuotaRecord,
               orgQuotaRecord |-> orgQuotaRecord]
  IN IF keyQuotaRecord.month_usage_usd > keyMonthlyLimitUsd
       THEN base @@ [allowed |-> FALSE, reason |-> "key_quota_exceeded"]
     ELSE IF userQuotaRecord.month_usage_usd > userMonthlyLimitUsd
       THEN base @@ [allowed |-> FALSE, reason |-> "user_quota_exceeded"]
     ELSE IF orgQuotaRecord.month_usage_usd > orgMonthlyBudgetUsd
       THEN base @@ [allowed |-> FALSE, reason |-> "organization_quota_exceeded"]
     ELSE base @@ [allowed |-> TRUE, reason |-> "none"]

\* variant: the check projects a cost of one unit onto the usage
CheckReactiveDecision_Projected(keyQuotaRecord, userQuotaRecord, orgQuotaRecord, keyMonthlyLimitUsd, userMonthlyLimitUsd, orgMonthlyBudgetUsd) ==
  LET base == [keyQuotaRecord |-> keyQuotaRecord,
               userQuotaRecord |-> userQuotaRecord,
               orgQuotaRecord |-> orgQuotaRecord]
  IN IF keyQuotaRecord.month_usage_usd + 1 >= keyMonthlyLimitUsd
       THEN base @@ [allowed |-> FALSE, reason |-> "key_quota_exceeded"]
     ELSE IF userQuotaRecord.month_usage_usd + 1 >= userMonthlyLimitUsd
       THEN base @@ [allowed |-> FALSE, reason |-> "user_quota_exceeded"]
     ELSE IF orgQuotaRecord.month_usage_usd + 1 >= orgMonthlyBudgetUsd
       THEN base @@ [allowed |-> FALSE, reason |-> "organization_quota_exceeded"]
     ELSE base @@ [allowed |-> TRUE, reason |-> "none"]

\* variant: the organization is compared first
CheckReactiveDecision_OrgFirst(keyQuotaRecord, userQuotaRecord, orgQuotaRecord, keyMonthlyLimitUsd, userMonthlyLimitUsd, orgMonthlyBudgetUsd) ==
  LET base == [keyQuotaRecord |-> keyQuotaRecord,
               userQuotaRecord |-> userQuotaRecord,
               orgQuotaRecord |-> orgQuotaRecord]
  IN IF orgQuotaRecord.month_usage_usd >= orgMonthlyBudgetUsd
       THEN base @@ [allowed |-> FALSE, reason |-> "organization_quota_exceeded"]
     ELSE IF userQuotaRecord.month_usage_usd >= userMonthlyLimitUsd
       THEN base @@ [allowed |-> FALSE, reason |-> "user_quota_exceeded"]
     ELSE IF keyQuotaRecord.month_usage_usd >= keyMonthlyLimitUsd
       THEN base @@ [allowed |-> FALSE, reason |-> "key_quota_exceeded"]
     ELSE base @@ [allowed |-> TRUE, reason |-> "none"]

\* the comparisons of checkReactiveQuotaLimit, once the three records are read
CheckReactiveDecision(keyQuotaRecord, userQuotaRecord, orgQuotaRecord, keyMonthlyLimitUsd, userMonthlyLimitUsd, orgMonthlyBudgetUsd) ==
  LET base == [keyQuotaRecord |-> keyQuotaRecord,
               userQuotaRecord |-> userQuotaRecord,
               orgQuotaRecord |-> orgQuotaRecord]
  IN IF keyQuotaRecord.month_usage_usd >= keyMonthlyLimitUsd
       THEN base @@ [allowed |-> FALSE, reason |-> "key_quota_exceeded"]
     ELSE IF userQuotaRecord.month_usage_usd >= userMonthlyLimitUsd
       THEN base @@ [allowed |-> FALSE, reason |-> "user_quota_exceeded"]
     ELSE IF orgQuotaRecord.month_usage_usd >= orgMonthlyBudgetUsd
       THEN base @@ [allowed |-> FALSE, reason |-> "organization_quota_exceeded"]
     ELSE base @@ [allowed |-> TRUE, reason |-> "none"]

(***************************************************************************)
(* lib/costs.ts.  Amounts are whole multiples of 10^-8 USD, the price of a *)
(* token at a rate of 0.01 USD per million tokens.                         *)
(***************************************************************************)
Min(a, b) == IF a <= b THEN a ELSE b

PricedModels == {<<"openai", "gpt-4o-mini">>, <<"anthropic", "claude-3-haiku">>}

\* input_cost_per_1m_tokens and output_cost_per_1m_tokens, times 100
MODEL_PRICING(model) ==
  CASE model = <<"openai", "gpt-4o-mini">> ->
         [input_cost_per_1m_tokens |-> 15, output_cost_per_1m_tokens |-> 60]
    [] model = <<"anthropic", "claude-3-haiku">> ->
         [input_cost_per_1m_tokens |-> 25, output_cost_per_1m_tokens |-> 125]

\* names every object answers to without having them as entries of its own
ObjectPrototypeKeys == {<<"constructor">>, <<"toString">>}

\* the result of an arithmetic operation on undefined; amounts are never
\* negative otherwise
NaN == -1

\* MODEL_PRICING[model]: the entry of the table, or what the table inherits
\* under that name (truthy, without rates), or undefined
PricingLookup(model) ==
  IF model \in PricedModels THEN MODEL_PRICING(model)
  ELSE IF model \in ObjectPrototypeKeys THEN [inherited |-> TRUE]
  ELSE NULL

\* variant: the output tokens are priced at the input rate
calculateCostFromUsage_InputRate(model, inputTokens, outputTokens) ==
  LET pricing == PricingLookup(model)
  IN IF pricing = NULL THEN (inputTokens + outputTokens) * 100
     ELSE IF pricing = [inherited |-> TRUE] THEN NaN
     ELSE inputTokens * pricing.input_cost_per_1m_tokens
          + outputTokens * pricing.input_cost_per_1m_tokens

\* a lookup that gives undefined costs 0.001 USD per thousand tokens; rates
\* that are undefined give NaN
calculateCostFromUsage(model, inputTokens, outputTokens) ==
  LET pricing == PricingLookup(model)
  IN IF pricing = NULL THEN (inputTokens + outputTokens) * 100
     ELSE IF pricing = [inherited |-> TRUE] THEN NaN
     ELSE inputTokens * pricing.input_cost_per_1m_tokens
          + outputTokens * pricing.output_cost_per_1m_tokens

\* the pre-call estimate: 0.01 USD for an unpriced model; else four characters
\* a token, and half as many output tokens as input tokens (the halving is
\* exact for the even counts of Payloads), capped by max_tokens or 1000
estimateCostFromRequest(model, requestBody) ==
  IF PricingLookup(model) = NULL
    THEN 1000000
    ELSE LET estimatedInputTokens == (requestBody.contentLength + 3) \div 4
             maxTokens == IF requestBody.max_tokens = NULL THEN 1000
                          ELSE requestBody.max_tokens
             estimatedOutputTokens == Min(maxTokens, estimatedInputTokens \div 2)
         IN calculateCostFromUsage(model, estimatedInputTokens, estimatedOutputTokens)

(***************************************************************************)
(* routes/chat.ts: helpers                                                 *)
(***************************************************************************)
\* variant: the catch admits whatever the failure mode
PerformQuotaCheckCatch_AlwaysOpen(failure_mode, currentMonth) ==
  [throws |-> FALSE,
   result |-> [allowed |-> TRUE, reason |-> "none",
               keyQuotaRecord |-> NewQuotaRecord(currentMonth),
               userQuotaRecord |-> NewQuotaRecord(currentMonth),
               orgQuotaRecord |-> NewQuotaRecord(currentMonth)]]

\* variant: the catch rethrows whatever the failure mode
PerformQuotaCheckCatch_AlwaysThrow(failure_mode, currentMonth) ==
  [throws |-> TRUE, result |-> NULL]

\* variant: the catch rethrows only for fail-closed
PerformQuotaCheckCatch_DefaultOpen(failure_mode, currentMonth) ==
  IF failure_mode # "fail-closed"
    THEN [throws |-> FALSE,
          result |-> [allowed |-> TRUE, reason |-> "none",
                      keyQuotaRecord |-> NewQuotaRecord(currentMonth),
                      userQuotaRecord |-> NewQuotaRecord(currentMonth),
                      orgQuotaRecord |-> NewQuotaRecord(currentMonth)]]
    ELSE [throws |-> TRUE, result |-> NULL]

\* the catch block of performQuotaCheck
PerformQuotaCheckCatch(failure_mode, currentMonth) ==
  IF failure_mode = "fail-open"
    THEN [throws |-> FALSE,
          result |-> [allowed |-> TRUE, reason |-> "none",
                      keyQuotaRecord |-> NewQuotaRecord(currentMonth),
                      userQuotaRecord |-> NewQuotaRecord(currentMonth),
                      orgQuotaRecord |-> NewQuotaRecord(currentMonth)]]
    ELSE [throws |-> TRUE, result |-> NULL]

NoResp == [status |-> 0, type |-> "none"]

\* step 5 of the handler: the catch around performQuotaCheck
QuotaUnavailableResponse == [status |-> 503, type |-> "service_error"]

\* the outer catch of the handler
ProxyErrorResponse == [status |-> 502, type |-> "proxy_error"]

\* variant: step 6 lets every result through
ProceedsAfterCheck_Always(quotaCheckResult) == TRUE

\* step 6 of the handler: only an allowed result goes on to the upstream call
ProceedsAfterCheck(quotaCheckResult) == quotaCheckResult.allowed

\* variant: every denial reports the record and the limit of the key
handleQuotaFailure_KeyDetails(quotaCheckResult, vk, userConfig, organizationConfig) ==
  IF quotaCheckResult.reason \in {"key_quota_exceeded", "user_quota_exceeded",
                                  "organization_quota_exceeded"}
    THEN [status |-> 429, type |-> quotaCheckResult.reason,
          usage_usd |-> quotaCheckResult.keyQuotaRecord.month_usage_usd,
          limit_usd |-> vk.monthly_limit_usd,
          remaining_usd |-> vk.monthly_limit_usd
                            - quotaCheckResult.keyQuotaRecord.month_usage_usd,
          org_usage_usd |-> quotaCheckResult.keyQuotaRecord.month_usage_usd,
          org_budget_usd |-> vk.monthly_limit_usd,
          org_remaining_usd |-> vk.monthly_limit_usd
                                - quotaCheckResult.keyQuotaRecord.month_usage_usd,
          current_month |-> quotaCheckResult.keyQuotaRecord.current_month]
  ELSE [status |-> 503, type |-> "quota_error"]

handleQuotaFailure(quotaCheckResult, vk, userConfig, organizationConfig) ==
  IF quotaCheckResult.reason = "key_quota_exceeded"
    THEN [status |-> 429, type |-> "key_quota_exceeded",
          usage_usd |-> quotaCheckResult.keyQuotaRecord.month_usage_usd,
          limit_usd |-> vk.monthly_limit_usd,
          remaining_usd |-> vk.monthly_limit_usd
                            - quotaCheckResult.keyQuotaRecord.month_usage_usd,
          current_month |-> quotaCheckResult.keyQuotaRecord.current_month]
  ELSE IF quotaCheckResult.reason = "user_quota_exceeded"
    THEN [status |-> 429, type |-> "user_quota_exceeded",
          usage_usd |-> quotaCheckResult.userQuotaRecord.month_usage_usd,
          limit_usd |-> userConfig.monthly_limit_usd,
          remaining_usd |-> userConfig.monthly_limit_usd
                            - quotaCheckResult.userQuotaRecord.month_usage_usd,
          current_month |-> quotaCheckResult.userQuotaRecord.current_month]
  ELSE IF quotaCheckResult.reason = "organization_quota_exceeded"
    THEN [status |-> 429, type |-> "organization_quota_exceeded",
          org_usage_usd |-> quotaCheckResult.orgQuotaRecord.month_usage_usd,
          org_budget_usd |-> organizationConfig.monthly_budget_usd,
          org_remaining_usd |-> organizationConfig.monthly_budget_usd
                                - quotaCheckResult.orgQuotaRecord.month_usage_usd,
          current_month |-> quotaCheckResult.orgQuotaRecord.current_month]
  ELSE [status |-> 503, type |-> "quota_error"]

\* what the upstream may answer: an HTTP status, a usage block or none, and the
\* cost calculateCostFromUsage gives the reported token counts (in units that
\* keep the amounts small)
UpstreamResponses ==
  [ok : BOOLEAN, hasUsage : BOOLEAN, cost : 1..MaxCost]

\* variant: the usage of an answer that is not ok is charged as well
ActualCostOf_AnyStatus(response) ==
  IF response.hasUsage THEN response.cost ELSE 0

\* processAiGatewayResponse: zero unless the answer is ok and reports usage
ActualCostOf(response) ==
  IF response.ok /\ response.hasUsage THEN response.cost ELSE 0

\* variant: the headers report the usage after the request
enhanceResponseWithUsageHeaders_AfterCost(response, quotaRecord, vk, actualCost) ==
  [status |-> IF response.ok THEN 200 ELSE 500, type |-> "proxied",
   usage_usd |-> quotaRecord.month_usage_usd + actualCost,
   limit_usd |-> vk.monthly_limit_usd,
   remaining_usd |-> vk.monthly_limit_usd - quotaRecord.month_usage_usd - actualCost,
   request_count |-> quotaRecord.request_count + 1,
   current_month |-> quotaRecord.current_month,
   cost_usd |-> actualCost]

enhanceResponseWithUsageHeaders(response, quotaRecord, vk, actualCost) ==
  [status |-> IF response.ok THEN 200 ELSE 500, type |-> "proxied",
   usage_usd |-> quotaRecord.month_usage_usd,
   limit_usd |-> vk.monthly_limit_usd,
   remaining_usd |-> vk.monthly_limit_usd - quotaRecord.month_usage_usd,
   request_count |-> quotaRecord.request_count,
   current_month |-> quotaRecord.current_month,
   cost_usd |-> actualCost]

\* variant: the handler awaits updateUsageTracking before it returns
ReturnProxyResponse_AfterAccrual(proxyResponse) == NoResp

\* step 10 and the return: what the client has once updateUsageTracking has
\* been handed to waitUntil
ReturnProxyResponse(proxyResponse) == proxyResponse

\* variant: the catch logs and rethrows
UpdateUsageTrackingCatch_Rethrow(failedScope, currentMonth) ==
  [throws |-> TRUE, result |-> NULL, resume |-> "none"]

\* the catch block of updateUsageTracking: the error is logged, a zero record
\* is returned, and whatever increment had not run yet is not run
UpdateUsageTrackingCatch(failedScope, currentMonth) ==
  [throws |-> FALSE, result |-> NewQuotaRecord(currentMonth), resume |-> "none"]

\* variant: the provider key is looked up after the quota check
ValidationResponse_KeyUnchecked(vk, organizationConfig, userConfig, model) ==
  IF organizationConfig = NULL THEN [status |-> 503, type |-> "organization_error"]
  ELSE IF userConfig = NULL THEN [status |-> 503, type |-> "user_error"]
  ELSE IF Len(model) < 2 THEN [status |-> 400, type |-> "invalid_model_format"]
  ELSE NoResp

\* variant: a user config that could not be read does not stop a request of
\* an organization in fail-open mode
ValidationResponse_OpenOnFailure(vk, organizationConfig, userConfig, model) ==
  IF organizationConfig = NULL THEN [status |-> 503, type |-> "organization_error"]
  ELSE IF userConfig = NULL /\ organizationConfig.failure_mode # "fail-open"
    THEN [status |-> 503, type |-> "user_error"]
  ELSE IF Len(model) < 2 THEN [status |-> 400, type |-> "invalid_model_format"]
  ELSE IF model[1] \notin organizationConfig.provider_keys
    THEN [status |-> 401, type |-> "provider_key_missing"]
  ELSE NoResp

\* steps 3 and 4 of the handler: the response that ends the request early, or
\* NoResp when the request goes on to the quota check
ValidationResponse(vk, organizationConfig, userConfig, model) ==
  IF organizationConfig = NULL THEN [status |-> 503, type |-> "organization_error"]
  ELSE IF userConfig = NULL THEN [status |-> 503, type |-> "user_error"]
  ELSE IF Len(model) < 2 THEN [status |-> 400, type |-> "invalid_model_format"]
  ELSE IF model[1] \notin organizationConfig.provider_keys
    THEN [status |-> 401, type |-> "provider_key_missing"]
  ELSE NoResp

(***************************************************************************)
(* State of one request slot                                               *)
(***************************************************************************)
NoLoc ==
  [organizationConfig |-> NULL, userConfig |-> NULL, currentMonth |-> "none",
   read |-> [s \in Scopes |-> NULL], quotaCheckResult |-> NULL,
   usage |-> NULL, actualCost |-> 0, quotaRecord |-> NULL, updatedQuota |-> NULL]

\* no call of lib/costs is modelled
NoCalc == [pc |-> "none"]

\* an admin slot that has not received its request
NoAdmin ==
  [pc |-> "idle", op |-> "none", param |-> "none", body |-> NULL, keyHash |-> "none",
   vkeyConfig |-> NULL, names |-> <<>>, status |-> 0]

NoHist ==
  [threw |-> FALSE, failOpen |-> FALSE, called |-> FALSE,
   accAttempted |-> {}, accApplied |-> {}, accFailed |-> {}, outcome |-> "none",
   written |-> [s \in Scopes |-> <<>>], failed |-> FALSE, keyHash |-> "none",
   placeholder |-> FALSE]

(***************************************************************************)
(* The handler of POST /chat/completions, one action per await             *)
(***************************************************************************)
\* a request arrives, authenticated as vkey[p]
StartRequest(p) ==
  /\ pc[p] \in {"idle", "done"}
  /\ left[p] > 0
  /\ \E payload \in Payloads : req' = [req EXCEPT ![p] = payload]
  /\ left' = [left EXCEPT ![p] = @ - 1]
  /\ pc' = [pc EXCEPT ![p] = "org_config"]
  /\ scope' = [scope EXCEPT ![p] = "none"]
  /\ loc' = [loc EXCEPT ![p] = NoLoc]
  /\ resp' = [resp EXCEPT ![p] = NoResp]
  /\ hist' = [hist EXCEPT ![p] = [NoHist EXCEPT !.written = hist[p].written,
                                                 !.failed = hist[p].failed,
                                                 !.placeholder = hist[p].placeholder]]
  /\ UNCHANGED <<kv, now, orgConfigs, userConfigs, vkey, kv0, adminVars, calc>>

\* step 2, getOrganizationConfig: a failed read is logged and gives null
GetOrganizationConfig(p) ==
  /\ pc[p] = "org_config"
  /\ \E ok \in BOOLEAN :
       loc' = [loc EXCEPT ![p].organizationConfig =
                 IF ok THEN orgConfigs[vkey[p].org_id] ELSE NULL]
  /\ pc' = [pc EXCEPT ![p] = "user_config"]
  /\ UNCHANGED <<kv, now, orgConfigs, userConfigs, vkey, scope, req, resp, hist, left, kv0, adminVars, calc>>

\* step 2, getUserConfig, then steps 3 and 4 (no await in between) and the
\* call of performQuotaCheck up to its first kv.get
GetUserConfig(p) ==
  /\ pc[p] = "user_config"
  /\ \E ok \in BOOLEAN :
       LET userConfig == IF ok THEN userConfigs[vkey[p].user] ELSE NULL
           early == ValidationResponse(vkey[p], loc[p].organizationConfig,
                                       userConfig, req[p].model)
       IN /\ loc' = [loc EXCEPT ![p].userConfig = userConfig,
                                ![p].currentMonth = getCurrentMonth]
          /\ resp' = [resp EXCEPT ![p] = early]
          /\ pc' = [pc EXCEPT ![p] = IF early = NoResp THEN "chk_get" ELSE "done"]
          /\ scope' = [scope EXCEPT ![p] = IF early = NoResp THEN "vkey" ELSE "none"]
  /\ UNCHANGED <<kv, now, orgConfigs, userConfigs, vkey, req, hist, left, kv0, adminVars, calc>>

\* a get*QuotaRecord call of checkReactiveQuotaLimit has returned `rec`: the
\* next record is read, or, after the third, the limits are compared and step 6
\* answers a denial
CheckReadDone(p, rec) ==
  LET s == scope[p]
      read == [loc[p].read EXCEPT ![s] = rec]
  IN IF NextScope(s) # "none"
       THEN /\ loc' = [loc EXCEPT ![p].read = read,
                                  ![p].currentMonth = getCurrentMonth]
            /\ scope' = [scope EXCEPT ![p] = NextScope(s)]
            /\ pc' = [pc EXCEPT ![p] = "chk_get"]
            /\ resp' = resp
       ELSE LET result == CheckReactiveDecision(
                            read["vkey"], read["user"], read["org"],
                            vkey[p].monthly_limit_usd,
                            loc[p].userConfig.monthly_limit_usd,
                            loc[p].organizationConfig.monthly_budget_usd)
            IN /\ loc' = [loc EXCEPT ![p].read = read,
                                     ![p].quotaCheckResult = result]
               /\ scope' = [scope EXCEPT ![p] = "none"]
               /\ pc' = [pc EXCEPT ![p] = IF ProceedsAfterCheck(result) THEN "fetch"
                                          ELSE "done"]
               /\ resp' = [resp EXCEPT ![p] =
                             IF ProceedsAfterCheck(result) THEN NoResp
                             ELSE handleQuotaFailure(result, vkey[p], loc[p].userConfig,
                                                     loc[p].organizationConfig)]

\* step 5: the kv.get of get*QuotaRecord returns
CheckGet(p) ==
  /\ pc[p] = "chk_get"
  /\ LET key == QuotaKey(scope[p], vkey[p])
         quotaRecord == kv[key]
     IN IF NeedsReset(quotaRecord, loc[p].currentMonth)
          THEN /\ pc' = [pc EXCEPT ![p] = "chk_put"]
               /\ UNCHANGED <<loc, scope, resp>>
          ELSE CheckReadDone(p, quotaRecord)
  /\ UNCHANGED <<kv, hist, now, orgConfigs, userConfigs, vkey, req, left, kv0, adminVars, calc>>

\* step 5: the kv.put of the zero record of get*QuotaRecord returns
CheckPut(p) ==
  /\ pc[p] = "chk_put"
  /\ LET key == QuotaKey(scope[p], vkey[p])
         newQuotaRecord == NewQuotaRecord(loc[p].currentMonth)
     IN /\ kv' = [kv EXCEPT ![key] = newQuotaRecord]
        /\ CheckReadDone(p, newQuotaRecord)
  /\ UNCHANGED <<hist, now, orgConfigs, userConfigs, vkey, req, left, kv0, adminVars, calc>>

\* step 5: the kv.get or kv.put the check is waiting for throws; the catch of
\* performQuotaCheck decides by failure_mode, the catch of step 5 answers 503
CheckStoreError(p) ==
  /\ pc[p] \in {"chk_get", "chk_put"}
  /\ LET caught == PerformQuotaCheckCatch(loc[p].organizationConfig.failure_mode,
                                          getCurrentMonth)
    IN /\ hist' = [hist EXCEPT ![p].threw = TRUE,
                               ![p].failed = TRUE,
                               ![p].failOpen = ~caught.throws,
                               ![p].placeholder = @ \/ ~caught.throws]
        /\ loc' = [loc EXCEPT ![p].quotaCheckResult = caught.result]
        /\ resp' = [resp EXCEPT ![p] =
                      IF caught.throws THEN QuotaUnavailableResponse ELSE NoResp]
        /\ pc' = [pc EXCEPT ![p] = IF caught.throws THEN "done" ELSE "fetch"]
        /\ scope' = [scope EXCEPT ![p] = "none"]
  /\ UNCHANGED <<kv, now, orgConfigs, userConfigs, vkey, req, left, kv0, adminVars, calc>>

\* steps 7 to 10: the upstream answers; the cost is computed, the response is
\* built from the record of the check and returned, and updateUsageTracking
\* is started (waitUntil) and runs up to its first kv.get
Fetch(p) ==
  /\ pc[p] = "fetch"
  /\ \E response \in UpstreamResponses :
       LET actualCost == ActualCostOf(response)
       IN /\ loc' = [loc EXCEPT ![p].usage = IF response.hasUsage
                                                THEN [cost |-> response.cost]
                                                ELSE NULL,
                                ![p].actualCost = actualCost,
                                ![p].currentMonth = getCurrentMonth]
          /\ resp' = [resp EXCEPT ![p] =
                        ReturnProxyResponse(
                          enhanceResponseWithUsageHeaders(
                            response, loc[p].quotaCheckResult.keyQuotaRecord,
                            vkey[p], actualCost))]
  /\ hist' = [hist EXCEPT ![p].called = TRUE, ![p].outcome = "pending"]
  /\ pc' = [pc EXCEPT ![p] = "acc_get"]
  /\ scope' = [scope EXCEPT ![p] = "vkey"]
  /\ UNCHANGED <<kv, now, orgConfigs, userConfigs, vkey, req, left, kv0, adminVars, calc>>

\* step 7: fetch throws; the outer catch answers 502
FetchError(p) ==
  /\ pc[p] = "fetch"
  /\ resp' = [resp EXCEPT ![p] = ProxyErrorResponse]
  /\ hist' = [hist EXCEPT ![p].called = TRUE]
  /\ pc' = [pc EXCEPT ![p] = "done"]
  /\ UNCHANGED <<kv, now, orgConfigs, userConfigs, vkey, scope, req, loc, left, kv0, adminVars, calc>>

(***************************************************************************)
(* updateUsageTracking, running after the response was returned            *)
(***************************************************************************)
\* the kv.get of get*QuotaRecord, called by update*QuotaUsage, returns
AccGet(p) ==
  /\ pc[p] = "acc_get"
  /\ LET key == QuotaKey(scope[p], vkey[p])
         quotaRecord == kv[key]
     IN IF NeedsReset(quotaRecord, loc[p].currentMonth)
          THEN /\ pc' = [pc EXCEPT ![p] = "acc_reset"]
               /\ loc' = loc
          ELSE /\ pc' = [pc EXCEPT ![p] = "acc_put"]
               /\ loc' = [loc EXCEPT ![p].quotaRecord = quotaRecord]
  /\ hist' = [hist EXCEPT ![p].accAttempted = @ \cup {scope[p]}]
  /\ UNCHANGED <<kv, now, orgConfigs, userConfigs, vkey, scope, req, resp, left, kv0, adminVars, calc>>

\* the kv.put of the zero record of get*QuotaRecord returns
AccReset(p) ==
  /\ pc[p] = "acc_reset"
  /\ LET key == QuotaKey(scope[p], vkey[p])
         newQuotaRecord == NewQuotaRecord(loc[p].currentMonth)
     IN /\ kv' = [kv EXCEPT ![key] = newQuotaRecord]
        /\ loc' = [loc EXCEPT ![p].quotaRecord = newQuotaRecord]
  /\ pc' = [pc EXCEPT ![p] = "acc_put"]
  /\ UNCHANGED <<hist, now, orgConfigs, userConfigs, vkey, scope, req, resp, left, kv0, adminVars, calc>>

\* the kv.put of update*QuotaUsage returns; the next scope's update starts, or
\* updateUsageTracking returns
AccPut(p) ==
  /\ pc[p] = "acc_put"
  /\ LET s == scope[p]
         key == QuotaKey(s, vkey[p])
         quotaRecord == Incremented(loc[p].quotaRecord, loc[p].actualCost)
         last == NextScope(s) = "none"
     IN /\ kv' = [kv EXCEPT ![key] = quotaRecord]
        /\ loc' = [loc EXCEPT ![p].quotaRecord = NULL,
                              ![p].updatedQuota =
                                 IF s = "vkey" THEN quotaRecord ELSE @,
                              ![p].currentMonth = getCurrentMonth]
        /\ hist' = [hist EXCEPT
                      ![p].accApplied = @ \cup {s},
                      ![p].written[s] = Append(@, loc[p].actualCost),
                      ![p].outcome = IF last THEN "resolved" ELSE @]
        /\ scope' = [scope EXCEPT ![p] = NextScope(s)]
        /\ pc' = [pc EXCEPT ![p] = IF last THEN "done" ELSE "acc_get"]
  /\ UNCHANGED <<now, orgConfigs, userConfigs, vkey, req, resp, left, kv0, adminVars, calc>>

\* the kv.get or kv.put an update is waiting for throws: the catch of
\* updateUsageTracking
AccStoreError(p) ==
  /\ pc[p] \in {"acc_get", "acc_reset", "acc_put"}
  /\ LET caught == UpdateUsageTrackingCatch(scope[p], getCurrentMonth)
         resumed == caught.resume # "none"
     IN /\ hist' = [hist EXCEPT
                      ![p].accAttempted = @ \cup {scope[p]},
                      ![p].accFailed = @ \cup {scope[p]},
                      ![p].failed = TRUE,
                      ![p].outcome = IF caught.throws THEN "rejected"
                                     ELSE IF resumed THEN @ ELSE "resolved"]
        /\ loc' = [loc EXCEPT ![p].quotaRecord = NULL,
                              ![p].updatedQuota = caught.result,
                              ![p].currentMonth = getCurrentMonth]
        /\ scope' = [scope EXCEPT ![p] = caught.resume]
        /\ pc' = [pc EXCEPT ![p] = IF resumed THEN "acc_get" ELSE "done"]
  /\ UNCHANGED <<kv, now, orgConfigs, userConfigs, vkey, req, resp, left, kv0, adminVars, calc>>

Next ==
  \E p \in Procs :
    \/ StartRequest(p)
    \/ GetOrganizationConfig(p)
    \/ GetUserConfig(p)
    \/ CheckGet(p)
    \/ CheckPut(p)
    \/ CheckStoreError(p)
    \/ Fetch(p)
    \/ FetchError(p)
    \/ AccGet(p)
    \/ AccReset(p)
    \/ AccPut(p)
    \/ AccStoreError(p)

(***************************************************************************)
(* lib/auth.ts: authMiddleware, in front of the handler                    *)
(***************************************************************************)
\* the answers of the middleware that end the request
AuthResponse(ok, vkeyConfig) ==
  IF ~ok THEN [status |-> 500, type |-> "auth_error"]
  ELSE IF vkeyConfig = NULL THEN [status |-> 401, type |-> "auth_error"]
  ELSE IF vkeyConfig.status # "active" THEN [status |-> 401, type |-> "auth_error"]
  ELSE NoResp

\* a request arrives with the key whose hash is keyHash: the kv.get of the
\* key's config returns (or throws), and for an active key the handler runs up
\* to its first await
Authenticate(p) ==
  /\ pc[p] \in {"idle", "done"}
  /\ left[p] > 0
  /\ \E keyHash \in KeyHashes, payload \in Payloads, ok \in BOOLEAN :
       LET vkeyConfig == vkeyConfigs[keyHash]
           early == AuthResponse(ok, vkeyConfig)
       IN /\ resp' = [resp EXCEPT ![p] = early]
          /\ pc' = [pc EXCEPT ![p] = IF early = NoResp THEN "org_config" ELSE "done"]
          /\ vkey' = [vkey EXCEPT ![p] = IF early = NoResp THEN vkeyConfig ELSE @]
          /\ req' = [req EXCEPT ![p] = payload]
          /\ hist' = [hist EXCEPT ![p] = [NoHist EXCEPT !.written = hist[p].written,
                                                          !.failed = hist[p].failed,
                                                          !.placeholder = hist[p].placeholder,
                                                          !.keyHash = keyHash]]
  /\ left' = [left EXCEPT ![p] = @ - 1]
  /\ scope' = [scope EXCEPT ![p] = "none"]
  /\ loc' = [loc EXCEPT ![p] = NoLoc]
  /\ UNCHANGED <<kv, now, orgConfigs, userConfigs, kv0, adminVars, calc>>

(***************************************************************************)
(* routes/admin/vkeys.ts: PATCH /:key_id                                   *)
(***************************************************************************)
\* the fields of a PATCH body; "undefined" (-1 for the limit) stands for a
\* field the body does not carry
PatchBodies ==
  {[monthly_limit_usd |-> -1, status |-> "revoked", user |-> "undefined"],
   [monthly_limit_usd |-> 1, status |-> "undefined", user |-> "undefined"],
   [monthly_limit_usd |-> -1, status |-> "undefined", user |-> "u2"]}

\* the fields the body carries replace those of the config read
ApplyPatch(vkeyConfig, body) ==
  [vkeyConfig EXCEPT
     !.monthly_limit_usd = IF body.monthly_limit_usd # -1 THEN body.monthly_limit_usd ELSE @,
     !.status = IF body.status # "undefined" THEN body.status ELSE @,
     !.user = IF body.user # "undefined" THEN body.user ELSE @]

\* a PATCH arrives; the kv.get of vkey:id:{key_id} returns or throws
PatchGetId(a) ==
  /\ admin[a].pc = "idle"
  /\ \E keyId \in KeyIds, body \in PatchBodies, ok \in BOOLEAN :
       LET keyHash == vkeyIds[keyId]
       IN admin' = [admin EXCEPT ![a] =
                      IF ~ok THEN [@ EXCEPT !.pc = "done", !.body = body, !.status = 500]
                      ELSE IF keyHash = "none"
                        THEN [@ EXCEPT !.pc = "done", !.body = body, !.status = 404]
                      ELSE [@ EXCEPT !.pc = "get_config", !.body = body,
                                     !.keyHash = keyHash]]
  /\ UNCHANGED <<kv, now, orgConfigs, userConfigs, vkey, pc, scope, req, loc, resp, hist, left,
                 kv0, vkeyConfigs, vkeyIds, calc>>

\* the kv.get of vkey:{hash}:config returns
PatchGetConfig(a) ==
  /\ admin[a].pc = "get_config"
  /\ LET vkeyConfig == vkeyConfigs[admin[a].keyHash]
     IN admin' = [admin EXCEPT ![a] =
                    IF vkeyConfig = NULL THEN [@ EXCEPT !.pc = "done", !.status = 404]
                    ELSE [@ EXCEPT !.pc = "put", !.vkeyConfig = vkeyConfig]]
  /\ UNCHANGED <<kv, now, orgConfigs, userConfigs, vkey, pc, scope, req, loc, resp, hist, left,
                 kv0, vkeyConfigs, vkeyIds, calc>>

\* the body is applied to the config read and the kv.put returns: 200
PatchPut(a) ==
  /\ admin[a].pc = "put"
  /\ LET vkeyConfig == ApplyPatch(admin[a].vkeyConfig, admin[a].body)
     IN /\ vkeyConfigs' = [vkeyConfigs EXCEPT ![admin[a].keyHash] = vkeyConfig]
        /\ admin' = [admin EXCEPT ![a].pc = "done", ![a].vkeyConfig = vkeyConfig,
                                  ![a].status = 200]
  /\ UNCHANGED <<kv, now, orgConfigs, userConfigs, vkey, pc, scope, req, loc, resp, hist, left,
                 kv0, vkeyIds, calc>>

\* the kv.get of the config or the kv.put throws: the catch answers 500
PatchStoreError(a) ==
  /\ admin[a].pc \in {"get_config", "put"}
  /\ admin' = [admin EXCEPT ![a].pc = "done", ![a].status = 500]
  /\ UNCHANGED <<kv, now, orgConfigs, userConfigs, vkey, pc, scope, req, loc, resp, hist, left,
                 kv0, vkeyConfigs, vkeyIds, calc>>

(***************************************************************************)
(* routes/admin: the other operations on keys, users and organizations.    *)
(* A request is served by an admin slot; its first await is part of the    *)
(* action that takes it up.                                                *)
(***************************************************************************)
\* a request answered at once: 404, 400, 409 or, for a failed store operation, 500
AdminAnswer(a, op, param, status) ==
  [admin EXCEPT ![a] = [@ EXCEPT !.pc = "done", !.op = op, !.param = param, !.status = status]]

\* the kv.get, kv.put, kv.delete or kv.list an admin request other than PATCH
\* is waiting for throws: its catch answers 500
AdminStoreError(a) ==
  /\ admin[a].pc \notin {"idle", "done", "get_config", "put"}
  /\ admin' = [admin EXCEPT ![a].pc = "done", ![a].status = 500]
  /\ UNCHANGED <<kv, orgConfigs, userConfigs, vkeyConfigs, vkeyIds, chatVars>>

\* vkeys.post: the kv.get of the organization config returns or throws
CreateKeyGetOrg(a) ==
  /\ admin[a].pc = "idle"
  /\ \E org_id \in Orgs, user \in Users, ok \in BOOLEAN :
       admin' =
         IF ~ok THEN AdminAnswer(a, "create_key", user, 500)
         ELSE IF orgConfigs[org_id] = NULL THEN AdminAnswer(a, "create_key", user, 404)
         ELSE [admin EXCEPT ![a] = [@ EXCEPT !.pc = "ck_get_user", !.op = "create_key",
                                             !.param = user, !.body = [org_id |-> org_id]]]
  /\ UNCHANGED <<kv, orgConfigs, userConfigs, vkeyConfigs, vkeyIds, chatVars>>

\* vkeys.post: the kv.get of the user config returns; the user must exist and
\* belong to the organization
CreateKeyGetUser(a) ==
  /\ admin[a].pc = "ck_get_user"
  /\ LET userConfig == userConfigs[admin[a].param]
     IN admin' = [admin EXCEPT ![a] =
                    IF userConfig = NULL THEN [@ EXCEPT !.pc = "done", !.status = 404]
                    ELSE IF userConfig.org_id # admin[a].body.org_id
                      THEN [@ EXCEPT !.pc = "done", !.status = 400]
                    ELSE [@ EXCEPT !.pc = "ck_put_config"]]
  /\ UNCHANGED <<kv, orgConfigs, userConfigs, vkeyConfigs, vkeyIds, chatVars>>

\* vkeys.post: a key is generated (one no config and no index entry names) and
\* the kv.put of its config returns
CreateKeyPutConfig(a) ==
  /\ admin[a].pc = "ck_put_config"
  /\ \E keyHash \in KeyHashes :
       /\ vkeyConfigs[keyHash] = NULL
       /\ vkeyIds[KeyIdOf(keyHash)] = "none"
       /\ \A b \in Admins \ {a} : admin[b].pc = "ck_put_id" => admin[b].keyHash # keyHash
       /\ LET vkeyConfig == [key_id |-> KeyIdOf(keyHash), key_hash |-> keyHash,
                             user |-> admin[a].param, org_id |-> admin[a].body.org_id,
                             monthly_limit_usd |-> MaxLimit, status |-> "active"]
          IN /\ vkeyConfigs' = [vkeyConfigs EXCEPT ![keyHash] = vkeyConfig]
             /\ admin' = [admin EXCEPT ![a].pc = "ck_put_id", ![a].keyHash = keyHash,
                                       ![a].vkeyConfig = vkeyConfig]
  /\ UNCHANGED <<kv, orgConfigs, userConfigs, vkeyIds, chatVars>>

\* vkeys.post: the kv.put of the index entry returns: 200
CreateKeyPutId(a) ==
  /\ admin[a].pc = "ck_put_id"
  /\ vkeyIds' = [vkeyIds EXCEPT ![admin[a].vkeyConfig.key_id] = admin[a].keyHash]
  /\ admin' = [admin EXCEPT ![a].pc = "done", ![a].status = 200]
  /\ UNCHANGED <<kv, orgConfigs, userConfigs, vkeyConfigs, chatVars>>

\* vkeys.delete: the kv.get of the index entry returns or throws
DeleteKeyGetId(a) ==
  /\ admin[a].pc = "idle"
  /\ \E keyId \in KeyIds, ok \in BOOLEAN :
       admin' =
         IF ~ok THEN AdminAnswer(a, "delete_key", keyId, 500)
         ELSE IF vkeyIds[keyId] = "none" THEN AdminAnswer(a, "delete_key", keyId, 404)
         ELSE [admin EXCEPT ![a] = [@ EXCEPT !.pc = "dk_get_config", !.op = "delete_key",
                                             !.param = keyId, !.keyHash = vkeyIds[keyId]]]
  /\ UNCHANGED <<kv, orgConfigs, userConfigs, vkeyConfigs, vkeyIds, chatVars>>

\* vkeys.delete: the kv.get of the config returns
DeleteKeyGetConfig(a) ==
  /\ admin[a].pc = "dk_get_config"
  /\ admin' = [admin EXCEPT ![a] =
                 IF vkeyConfigs[admin[a].keyHash] = NULL
                   THEN [@ EXCEPT !.pc = "done", !.status = 404]
                   ELSE [@ EXCEPT !.pc = "dk_del_config"]]
  /\ UNCHANGED <<kv, orgConfigs, userConfigs, vkeyConfigs, vkeyIds, chatVars>>

\* vkeys.delete: the three kv.delete calls return, one after the other
DeleteKeyDelete(a) ==
  /\ admin[a].pc \in {"dk_del_config", "dk_del_quota", "dk_del_id"}
  /\ vkeyConfigs' = IF admin[a].pc = "dk_del_config"
                      THEN [vkeyConfigs EXCEPT ![admin[a].keyHash] = NULL] ELSE vkeyConfigs
  /\ kv' = IF admin[a].pc = "dk_del_quota"
             THEN [kv EXCEPT ![<<"vkey", admin[a].keyHash>>] = NULL] ELSE kv
  /\ vkeyIds' = IF admin[a].pc = "dk_del_id"
                  THEN [vkeyIds EXCEPT ![admin[a].param] = "none"] ELSE vkeyIds
  /\ admin' = [admin EXCEPT ![a] =
                 CASE admin[a].pc = "dk_del_config" -> [@ EXCEPT !.pc = "dk_del_quota"]
                   [] admin[a].pc = "dk_del_quota" -> [@ EXCEPT !.pc = "dk_del_id"]
                   [] OTHER -> [@ EXCEPT !.pc = "done", !.status = 200]]
  /\ UNCHANGED <<orgConfigs, userConfigs, chatVars>>

\* users.post: the kv.get of the organization config returns or throws
CreateUserGetOrg(a) ==
  /\ admin[a].pc = "idle"
  /\ \E org_id \in Orgs, user \in Users, ok \in BOOLEAN :
       admin' =
         IF ~ok THEN AdminAnswer(a, "create_user", user, 500)
         ELSE IF orgConfigs[org_id] = NULL THEN AdminAnswer(a, "create_user", user, 404)
         ELSE [admin EXCEPT ![a] = [@ EXCEPT !.pc = "cu_get_user", !.op = "create_user",
                                             !.param = user, !.body = [org_id |-> org_id]]]
  /\ UNCHANGED <<kv, orgConfigs, userConfigs, vkeyConfigs, vkeyIds, chatVars>>

\* users.post: the kv.get of the user config returns: 409 for a user that exists
CreateUserGetUser(a) ==
  /\ admin[a].pc = "cu_get_user"
  /\ admin' = [admin EXCEPT ![a] =
                 IF userConfigs[admin[a].param] # NULL
                   THEN [@ EXCEPT !.pc = "done", !.status = 409]
                   ELSE [@ EXCEPT !.pc = "cu_put"]]
  /\ UNCHANGED <<kv, orgConfigs, userConfigs, vkeyConfigs, vkeyIds, chatVars>>

\* users.post: the kv.put of the user config returns: 201
CreateUserPut(a) ==
  /\ admin[a].pc = "cu_put"
  /\ userConfigs' = [userConfigs EXCEPT
                       ![admin[a].param] = UserConfig(admin[a].body.org_id, MaxLimit)]
  /\ admin' = [admin EXCEPT ![a].pc = "done", ![a].status = 201]
  /\ UNCHANGED <<kv, orgConfigs, vkeyConfigs, vkeyIds, chatVars>>

\* users.delete: the kv.get of the user config returns or throws
DeleteUserGet(a) ==
  /\ admin[a].pc = "idle"
  /\ \E user \in Users, ok \in BOOLEAN :
       admin' =
         IF ~ok THEN AdminAnswer(a, "delete_user", user, 500)
         ELSE IF userConfigs[user] = NULL THEN AdminAnswer(a, "delete_user", user, 404)
         ELSE [admin EXCEPT ![a] = [@ EXCEPT !.pc = "du_del_config", !.op = "delete_user",
                                             !.param = user]]
  /\ UNCHANGED <<kv, orgConfigs, userConfigs, vkeyConfigs, vkeyIds, chatVars>>

\* users.delete: the two kv.delete calls return, one after the other
DeleteUserDelete(a) ==
  /\ admin[a].pc \in {"du_del_config", "du_del_quota"}
  /\ userConfigs' = IF admin[a].pc = "du_del_config"
                      THEN [userConfigs EXCEPT ![admin[a].param] = NULL] ELSE userConfigs
  /\ kv' = IF admin[a].pc = "du_del_quota"
             THEN [kv EXCEPT ![<<"user", admin[a].param>>] = NULL] ELSE kv
  /\ admin' = [admin EXCEPT ![a] =
                 IF admin[a].pc = "du_del_config" THEN [@ EXCEPT !.pc = "du_del_quota"]
                 ELSE [@ EXCEPT !.pc = "done", !.status = 200]]
  /\ UNCHANGED <<orgConfigs, vkeyConfigs, vkeyIds, chatVars>>

\* the names one call of kv.list returns at most (1000 in the store, scaled
\* down to the size of the stores explored)
ListLimit == 2

\* the orders the hashes of the keys may stand in
HashOrders == {<<"k1", "k2">>, <<"k2", "k1">>}

\* the names stored for one key hash, for one key id, for one user
NamesOfKey(keyHash) ==
  (IF vkeyConfigs[keyHash] # NULL THEN << <<"config", keyHash>> >> ELSE <<>>)
  \o (IF kv[<<"vkey", keyHash>>] # NULL THEN << <<"quota", keyHash>> >> ELSE <<>>)

NameOfId(keyId) == IF vkeyIds[keyId] # "none" THEN << <<"id", keyId>> >> ELSE <<>>

NamesOfUser(user) ==
  (IF userConfigs[user] # NULL THEN << <<"config", user>> >> ELSE <<>>)
  \o (IF kv[<<"user", user>>] # NULL THEN << <<"quota", user>> >> ELSE <<>>)

\* the names under the prefix "vkey:" in lexicographic order (a hash is a hex
\* string, so `vkey:id:...` comes last), and those under the prefix "user:"
VkeyNames(order) ==
  NamesOfKey(order[1]) \o NamesOfKey(order[2]) \o NameOfId("id1") \o NameOfId("id2")

UserNames == NamesOfUser("u1") \o NamesOfUser("u2")

\* what one call of kv.list returns of the names stored: the first page
FirstPage(names) == SubSeq(names, 1, Min(Len(names), ListLimit))

\* the names of a page that end in ":config", in the order of the page
ConfigsOf(page) ==
  LET F[i \in 0..Len(page)] ==
        IF i = 0 THEN <<>>
        ELSE IF page[i][1] = "config" THEN Append(F[i - 1], page[i][2]) ELSE F[i - 1]
  IN F[Len(page)]

\* the loop of the cascade goes on with the next name of its list, or with
\* what follows the loop when the list is used up
NextOfLoop(a, names, loop, after) ==
  IF names = <<>> THEN [admin[a] EXCEPT !.pc = after, !.names = <<>>]
  ELSE [admin[a] EXCEPT !.pc = loop, !.names = names]

\* organizations.delete: the kv.get of the organization config returns or throws
DeleteOrgGet(a) ==
  /\ admin[a].pc = "idle"
  /\ \E org_id \in Orgs, ok \in BOOLEAN :
       admin' =
         IF ~ok THEN AdminAnswer(a, "delete_org", org_id, 500)
         ELSE IF orgConfigs[org_id] = NULL THEN AdminAnswer(a, "delete_org", org_id, 404)
         ELSE [admin EXCEPT ![a] = [@ EXCEPT !.pc = "do_list_vkeys", !.op = "delete_org",
                                             !.param = org_id]]
  /\ UNCHANGED <<kv, orgConfigs, userConfigs, vkeyConfigs, vkeyIds, chatVars>>

\* organizations.delete: kv.list({prefix: "vkey:"}) returns; the loop runs up
\* to its first kv.get
DeleteOrgListVkeys(a) ==
  /\ admin[a].pc = "do_list_vkeys"
  /\ \E order \in HashOrders :
       admin' = [admin EXCEPT ![a] =
                   NextOfLoop(a, ConfigsOf(FirstPage(VkeyNames(order))),
                              "do_vkey_get", "do_list_users")]
  /\ UNCHANGED <<kv, orgConfigs, userConfigs, vkeyConfigs, vkeyIds, chatVars>>

\* organizations.delete: the kv.get of a listed key config returns; a key of
\* the organization is deleted, any other name is passed over
DeleteOrgVkeyGet(a) ==
  /\ admin[a].pc = "do_vkey_get"
  /\ LET vkeyConfig == vkeyConfigs[Head(admin[a].names)]
         rest == Tail(admin[a].names)
     IN admin' = [admin EXCEPT ![a] =
                    IF vkeyConfig # NULL /\ vkeyConfig.org_id = admin[a].param
                      THEN [@ EXCEPT !.pc = "do_vkey_del_config", !.names = rest,
                                     !.vkeyConfig = vkeyConfig]
                      ELSE NextOfLoop(a, rest, "do_vkey_get", "do_list_users")]
  /\ UNCHANGED <<kv, orgConfigs, userConfigs, vkeyConfigs, vkeyIds, chatVars>>

\* organizations.delete: the three kv.delete calls for a key return, one after
\* the other
DeleteOrgVkeyDelete(a) ==
  /\ admin[a].pc \in {"do_vkey_del_config", "do_vkey_del_quota", "do_vkey_del_id"}
  /\ LET vkeyConfig == admin[a].vkeyConfig
     IN /\ vkeyConfigs' = IF admin[a].pc = "do_vkey_del_config"
                            THEN [vkeyConfigs EXCEPT ![vkeyConfig.key_hash] = NULL]
                            ELSE vkeyConfigs
        /\ kv' = IF admin[a].pc = "do_vkey_del_quota"
                   THEN [kv EXCEPT ![<<"vkey", vkeyConfig.key_hash>>] = NULL] ELSE kv
        /\ vkeyIds' = IF admin[a].pc = "do_vkey_del_id"
                        THEN [vkeyIds EXCEPT ![vkeyConfig.key_id] = "none"] ELSE vkeyIds
  /\ admin' = [admin EXCEPT ![a] =
                 CASE admin[a].pc = "do_vkey_del_config" -> [@ EXCEPT !.pc = "do_vkey_del_quota"]
                   [] admin[a].pc = "do_vkey_del_quota" -> [@ EXCEPT !.pc = "do_vkey_del_id"]
                   [] OTHER -> NextOfLoop(a, admin[a].names, "do_vkey_get", "do_list_users")]
  /\ UNCHANGED <<orgConfigs, userConfigs, chatVars>>

\* organizations.delete: kv.list({prefix: "user:"}) returns; the loop runs up
\* to its first kv.get
DeleteOrgListUsers(a) ==
  /\ admin[a].pc = "do_list_users"
  /\ admin' = [admin EXCEPT ![a] =
                 NextOfLoop(a, ConfigsOf(FirstPage(UserNames)),
                            "do_user_get", "do_org_del_config")]
  /\ UNCHANGED <<kv, orgConfigs, userConfigs, vkeyConfigs, vkeyIds, chatVars>>

\* organizations.delete: the kv.get of a listed user config returns
DeleteOrgUserGet(a) ==
  /\ admin[a].pc = "do_user_get"
  /\ LET user == Head(admin[a].names)
         userConfig == userConfigs[user]
         rest == Tail(admin[a].names)
     IN admin' = [admin EXCEPT ![a] =
                    IF userConfig # NULL /\ userConfig.org_id = admin[a].param
                      THEN [@ EXCEPT !.pc = "do_user_del_config", !.names = rest,
                                     !.keyHash = user]
                      ELSE NextOfLoop(a, rest, "do_user_get", "do_org_del_config")]
  /\ UNCHANGED <<kv, orgConfigs, userConfigs, vkeyConfigs, vkeyIds, chatVars>>

\* organizations.delete: the two kv.delete calls for a user return (the slot
\* keeps the user in keyHash)
DeleteOrgUserDelete(a) ==
  /\ admin[a].pc \in {"do_user_del_config", "do_user_del_quota"}
  /\ userConfigs' = IF admin[a].pc = "do_user_del_config"
                      THEN [userConfigs EXCEPT ![admin[a].keyHash] = NULL] ELSE userConfigs
  /\ kv' = IF admin[a].pc = "do_user_del_quota"
             THEN [kv EXCEPT ![<<"user", admin[a].keyHash>>] = NULL] ELSE kv
  /\ admin' = [admin EXCEPT ![a] =
                 IF admin[a].pc = "do_user_del_config"
                   THEN [@ EXCEPT !.pc = "do_user_del_quota"]
                 ELSE NextOfLoop(a, admin[a].names, "do_user_get", "do_org_del_config")]
  /\ UNCHANGED <<orgConfigs, vkeyConfigs, vkeyIds, chatVars>>

\* organizations.delete: the kv.delete of the organization config and of its
\* quota record return, one after the other: 200
DeleteOrgDelete(a) ==
  /\ admin[a].pc \in {"do_org_del_config", "do_org_del_quota"}
  /\ orgConfigs' = IF admin[a].pc = "do_org_del_config"
                     THEN [orgConfigs EXCEPT ![admin[a].param] = NULL] ELSE orgConfigs
  /\ kv' = IF admin[a].pc = "do_org_del_quota"
             THEN [kv EXCEPT ![<<"org", admin[a].param>>] = NULL] ELSE kv
  /\ admin' = [admin EXCEPT ![a] =
                 IF admin[a].pc = "do_org_del_config" THEN [@ EXCEPT !.pc = "do_org_del_quota"]
                 ELSE [@ EXCEPT !.pc = "done", !.status = 200]]
  /\ UNCHANGED <<userConfigs, vkeyConfigs, vkeyIds, chatVars>>

(***************************************************************************)
(* Initial states                                                          *)
(***************************************************************************)
OrgConfig(failure_mode, budget) ==
  [failure_mode |-> failure_mode, monthly_budget_usd |-> budget,
   provider_keys |-> Providers]

VKey(key_hash, limit) ==
  [key_id |-> KeyIdOf(key_hash), key_hash |-> key_hash, user |-> "u1", org_id |-> "o1",
   monthly_limit_usd |-> limit, status |-> "active"]

\* the records a quota key may hold when a request arrives: none, one of an
\* earlier month, one of the current month
InitRecords ==
  {NULL}
  \cup {[month_usage_usd |-> MaxLimit, current_month |-> LastMonth, request_count |-> 1]}
  \cup {[month_usage_usd |-> u, current_month |-> ThisMonth, request_count |-> 1] :
          u \in 0..MaxLimit}

InitSlots(lefts) ==
  /\ now = ThisMonth
  /\ kv0 = kv
  /\ pc = [p \in Procs |-> "idle"]
  /\ scope = [p \in Procs |-> "none"]
  /\ req = [p \in Procs |-> CHOOSE payload \in Payloads :
                                 payload.model = <<"openai", "gpt-4o-mini">>]
  /\ loc = [p \in Procs |-> NoLoc]
  /\ resp = [p \in Procs |-> NoResp]
  /\ hist = [p \in Procs |-> NoHist]
  /\ left = lefts
  /\ vkeyConfigs = [k \in KeyHashes |->
                      IF \E p \in Procs : vkey[p].key_hash = k
                        THEN vkey[CHOOSE p \in Procs : vkey[p].key_hash = k]
                        ELSE NULL]
  /\ vkeyIds = [id \in KeyIds |->
                  IF \E p \in Procs : vkey[p].key_id = id
                    THEN vkey[CHOOSE p \in Procs : vkey[p].key_id = id].key_hash
                    ELSE "none"]
  /\ admin = [a \in Admins |-> NoAdmin]
  /\ calc = NoCalc

\* one request arrives, for key k1 of user u1 of organization o1: the stored
\* records, the three limits and the failure mode are arbitrary
Init ==
  /\ \E rk, ru, ro \in InitRecords :
       kv = [k \in QuotaKeys |->
               CASE k = <<"vkey", "k1">> -> rk
                 [] k = <<"user", "u1">> -> ru
                 [] k = <<"org", "o1">>  -> ro
                 [] OTHER -> NULL]
  /\ \E fm \in FailureModes, budget \in 1..MaxLimit :
       orgConfigs = [o \in Orgs |-> OrgConfig(fm, budget)]
  /\ \E limit \in 1..MaxLimit : userConfigs = [u \in Users |-> UserConfig("o1", limit)]
  /\ \E limit \in 1..MaxLimit : vkey = [p \in Procs |-> VKey("k1", limit)]
  /\ InitSlots([p \in Procs |-> IF p = "p1" THEN 1 ELSE 0])

Spec == Init /\ [][Next]_vars

\* two requests arrive and overlap, for one key or for two keys of one user;
\* the store is empty or holds zero records of the current month; every limit
\* is MaxLimit
InitConc ==
  /\ \E r \in {NULL, NewQuotaRecord(ThisMonth)} : kv = [k \in QuotaKeys |-> r]
  /\ \E fm \in FailureModes : orgConfigs = [o \in Orgs |-> OrgConfig(fm, MaxLimit)]
  /\ userConfigs = [u \in Users |-> UserConfig("o1", MaxLimit)]
  /\ \E k \in KeyHashes :
       vkey = [p \in Procs |-> VKey(IF p = "p1" THEN "k1" ELSE k, MaxLimit)]
  /\ InitSlots([p \in Procs |-> 1])

SpecConc == InitConc /\ [][Next]_vars

\* the record of last month every key holds when the month has just changed
StaleRecord == [month_usage_usd |-> MaxLimit, current_month |-> LastMonth, request_count |-> 1]

\* two requests arrive and overlap just after the month has changed, for one
\* key or for two keys of one user
InitReads ==
  /\ kv = [k \in QuotaKeys |-> StaleRecord]
  /\ \E fm \in FailureModes : orgConfigs = [o \in Orgs |-> OrgConfig(fm, MaxLimit)]
  /\ userConfigs = [u \in Users |-> UserConfig("o1", MaxLimit)]
  /\ \E k \in KeyHashes :
       vkey = [p \in Procs |-> VKey(IF p = "p1" THEN "k1" ELSE k, MaxLimit)]
  /\ InitSlots([p \in Procs |-> 1])

\* the requests up to the end of their checks: the reads of the quota records,
\* and no increment
NextReads ==
  \E p \in Procs :
    \/ StartRequest(p)
    \/ GetOrganizationConfig(p)
    \/ GetUserConfig(p)
    \/ CheckGet(p)
    \/ CheckPut(p)
    \/ CheckStoreError(p)

SpecReads == InitReads /\ [][NextReads]_vars

\* just after the month has changed: one request in the first slot overlaps
\* two requests, one after the other, in the second, all for key k1
InitReset ==
  /\ kv = [k \in QuotaKeys |-> StaleRecord]
  /\ orgConfigs = [o \in Orgs |-> OrgConfig("fail-closed", MaxLimit)]
  /\ userConfigs = [u \in Users |-> UserConfig("o1", MaxLimit)]
  /\ vkey = [p \in Procs |-> VKey("k1", MaxLimit)]
  /\ InitSlots([p \in Procs |-> IF p = "p1" THEN 1 ELSE 2])

\* the requests when no quota-store operation and no upstream call fails: every
\* check runs to its end and resets what is stale, so no increment has to
\* (AccReset is never enabled)
NextReset ==
  \E p \in Procs :
    \/ StartRequest(p)
    \/ GetOrganizationConfig(p)
    \/ GetUserConfig(p)
    \/ CheckGet(p)
    \/ CheckPut(p)
    \/ Fetch(p)
    \/ AccGet(p)
    \/ AccPut(p)

SpecReset == InitReset /\ [][NextReset]_vars

\* MaxSeq requests arrive one after another in one slot, with limits none of
\* them reaches; the three keys hold no record, a stale one, or one of the
\* current month with some usage
InitSeq ==
  /\ \E r \in InitRecords : kv = [k \in QuotaKeys |-> r]
  /\ \E fm \in FailureModes :
       orgConfigs = [o \in Orgs |-> OrgConfig(fm, MaxLimit + MaxSeq * MaxCost)]
  /\ userConfigs = [u \in Users |-> UserConfig("o1", MaxLimit + MaxSeq * MaxCost)]
  /\ vkey = [p \in Procs |-> VKey("k1", MaxLimit + MaxSeq * MaxCost)]
  /\ InitSlots([p \in Procs |-> IF p = "p1" THEN MaxSeq ELSE 0])

SpecSeq == InitSeq /\ [][Next]_vars

\* the start of a month: every key holds no record, or every key a stale one;
\* key k1 belongs to user u1, key k2 to u1 or to u2; two requests arrive for
\* each key
InitAgg ==
  /\ \E r \in {NULL, StaleRecord} : kv = [k \in QuotaKeys |-> r]
  /\ orgConfigs = [o \in Orgs |-> OrgConfig("fail-closed", MaxLimit + MaxSeq * MaxCost)]
  /\ userConfigs = [u \in Users |-> UserConfig("o1", MaxLimit + MaxSeq * MaxCost)]
  /\ \E u \in Users :
       vkey = [p \in Procs |-> IF p = "p1" THEN VKey("k1", MaxLimit)
                               ELSE [VKey("k2", MaxLimit) EXCEPT !.user = u]]
  /\ InitSlots([p \in Procs |-> 2])

\* the requests processed one at a time (a request is taken up only when none
\* is in flight), no quota-store operation failing; AccReset is never enabled
NextAgg ==
  \E p \in Procs :
    \/ StartRequest(p) /\ \A q \in Procs : pc[q] \in {"idle", "done"}
    \/ GetOrganizationConfig(p)
    \/ GetUserConfig(p)
    \/ CheckGet(p)
    \/ CheckPut(p)
    \/ Fetch(p)
    \/ FetchError(p)
    \/ AccGet(p)
    \/ AccPut(p)

SpecAgg == InitAgg /\ [][NextAgg]_vars

\* MaxSeq requests arrive for one key; one of the three scopes has a limit
\* that the requests can reach; the keys hold no record, a stale one, or one of the
\* current month with some usage
InitSerial ==
  /\ \E r \in {NULL, StaleRecord,
                [month_usage_usd |-> 1, current_month |-> ThisMonth, request_count |-> 1]} :
       kv = [k \in QuotaKeys |-> r]
  /\ \E fm \in FailureModes, tight \in Scopes :
       LET limit(s) == IF s = tight THEN MaxLimit ELSE MaxLimit + MaxSeq * MaxCost
       IN /\ orgConfigs = [o \in Orgs |-> OrgConfig(fm, limit("org"))]
          /\ userConfigs = [u \in Users |-> UserConfig("o1", limit("user"))]
          /\ vkey = [p \in Procs |-> VKey("k1", limit("vkey"))]
  /\ InitSlots([p \in Procs |-> IF p = "p1" THEN MaxSeq ELSE 0])

\* the requests processed one at a time: a request is taken up only when the
\* check, the upstream call and the accrual of every earlier one have ended
NextSerial ==
  \E p \in Procs :
    \/ StartRequest(p) /\ \A q \in Procs : pc[q] \in {"idle", "done"}
    \/ GetOrganizationConfig(p)
    \/ GetUserConfig(p)
    \/ CheckGet(p)
    \/ CheckPut(p)
    \/ CheckStoreError(p)
    \/ Fetch(p)
    \/ FetchError(p)
    \/ AccGet(p)
    \/ AccReset(p)
    \/ AccPut(p)
    \/ AccStoreError(p)

SpecSerial == InitSerial /\ [][NextSerial]_vars

\* what the failure_mode of a stored organization config may be: one of the
\* two modes, no value, or a value that is neither
StoredFailureModes == FailureModes \cup {"undefined", "open"}

\* one request arrives for an organization with any stored failure_mode; the
\* three keys hold no record, a stale one, or one of the current month
InitPolicy ==
  /\ \E r \in InitRecords : kv = [k \in QuotaKeys |-> r]
  /\ \E fm \in StoredFailureModes : orgConfigs = [o \in Orgs |-> OrgConfig(fm, MaxLimit)]
  /\ userConfigs = [u \in Users |-> UserConfig("o1", MaxLimit)]
  /\ vkey = [p \in Procs |-> VKey("k1", MaxLimit)]
  /\ InitSlots([p \in Procs |-> IF p = "p1" THEN 1 ELSE 0])

SpecPolicy == InitPolicy /\ [][Next]_vars

\* one request arrives, with any of the payloads, while the config of the
\* organization or of the user may be missing from the store
InitValidation ==
  /\ \E r \in InitRecords : kv = [k \in QuotaKeys |-> r]
  /\ \E fm \in FailureModes :
       \E c \in {NULL, OrgConfig(fm, MaxLimit)} : orgConfigs = [o \in Orgs |-> c]
  /\ \E c \in {NULL, UserConfig("o1", MaxLimit)} : userConfigs = [u \in Users |-> c]
  /\ vkey = [p \in Procs |-> VKey("k1", MaxLimit)]
  /\ InitSlots([p \in Procs |-> IF p = "p1" THEN 1 ELSE 0])

SpecValidation == InitValidation /\ [][Next]_vars

\* the operation the request of slot p is waiting for returns or throws
Returns(p) ==
  \/ GetOrganizationConfig(p)
  \/ GetUserConfig(p)
  \/ CheckGet(p)
  \/ CheckPut(p)
  \/ CheckStoreError(p)
  \/ Fetch(p)
  \/ FetchError(p)
  \/ AccGet(p)
  \/ AccReset(p)
  \/ AccPut(p)
  \/ AccStoreError(p)

\* every store operation and every upstream call eventually returns or throws
SpecLive ==
  InitValidation /\ [][Next]_vars /\ \A p \in Procs : WF_vars(Returns(p))

\* the token counts of the calls of lib/costs
MaxTokens == 3
TokenCounts == (0 .. MaxTokens) \cup {2000, 1000000}

\* the model names of the calls of lib/costs
CostModels == Models \cup ObjectPrototypeKeys \cup {<<"no-such-model">>}

\* calculateCostFromUsage is called with any model name and token counts
InitCost ==
  /\ kv = [k \in QuotaKeys |-> NULL]
  /\ orgConfigs = [o \in Orgs |-> OrgConfig("fail-closed", MaxLimit)]
  /\ userConfigs = [u \in Users |-> UserConfig("o1", MaxLimit)]
  /\ vkey = [p \in Procs |-> VKey("k1", MaxLimit)]
  /\ now = ThisMonth
  /\ kv0 = kv
  /\ pc = [p \in Procs |-> "idle"]
  /\ scope = [p \in Procs |-> "none"]
  /\ req = [p \in Procs |-> NULL]
  /\ loc = [p \in Procs |-> NoLoc]
  /\ resp = [p \in Procs |-> NoResp]
  /\ hist = [p \in Procs |-> NoHist]
  /\ left = [p \in Procs |-> 0]
  /\ vkeyConfigs = [k \in KeyHashes |-> NULL]
  /\ vkeyIds = [id \in KeyIds |-> "none"]
  /\ admin = [a \in Admins |-> NoAdmin]
  /\ \E model \in CostModels, inputTokens \in TokenCounts, outputTokens \in TokenCounts :
       calc = [pc |-> "called", model |-> model, inputTokens |-> inputTokens,
               outputTokens |-> outputTokens]

\* the call returns
CalculateCostFromUsage ==
  /\ calc.pc = "called"
  /\ calc' = [pc |-> "returned", model |-> calc.model, inputTokens |-> calc.inputTokens,
              outputTokens |-> calc.outputTokens,
              result |-> calculateCostFromUsage(calc.model, calc.inputTokens,
                                                calc.outputTokens)]
  /\ UNCHANGED <<kv, now, orgConfigs, userConfigs, vkey, pc, scope, req, loc, resp, hist, left,
                 kv0, adminVars>>

NextCost == CalculateCostFromUsage

SpecCost == InitCost /\ [][NextCost]_vars

\* key k1 is active and its records hold usage; two admin requests and one
\* chat request are to come
InitRevoke ==
  /\ \E r \in {StaleRecord,
                [month_usage_usd |-> 1, current_month |-> ThisMonth, request_count |-> 1]} :
       kv = [k \in QuotaKeys |-> r]
  /\ \E mode \in FailureModes : orgConfigs = [o \in Orgs |-> OrgConfig(mode, MaxLimit)]
  /\ userConfigs = [u \in Users |-> UserConfig("o1", MaxLimit)]
  /\ vkey = [p \in Procs |-> VKey("k1", MaxLimit)]
  /\ InitSlots([p \in Procs |-> IF p = "p1" THEN 1 ELSE 0])

\* chat requests that pass through the middleware, next to admin requests
NextRevoke ==
  \/ \E p \in Procs :
       \/ Authenticate(p)
       \/ GetOrganizationConfig(p)
       \/ GetUserConfig(p)
       \/ CheckGet(p)
       \/ CheckPut(p)
       \/ CheckStoreError(p)
       \/ Fetch(p)
       \/ FetchError(p)
       \/ AccGet(p)
       \/ AccReset(p)
       \/ AccPut(p)
       \/ AccStoreError(p)
  \/ \E a \in Admins :
       \/ PatchGetId(a)
       \/ PatchGetConfig(a)
       \/ PatchPut(a)
       \/ PatchStoreError(a)

SpecRevoke == InitRevoke /\ [][NextRevoke]_vars

(***************************************************************************)
(* Properties                                                              *)
(***************************************************************************)
FailureModeOf(p) == orgConfigs[vkey[p].org_id].failure_mode

LimitOf(p, s) ==
  CASE s = "vkey" -> vkey[p].monthly_limit_usd
    [] s = "user" -> userConfigs[vkey[p].user].monthly_limit_usd
    [] s = "org"  -> orgConfigs[vkey[p].org_id].monthly_budget_usd

\* what a get*QuotaRecord call returns for a stored record
PeriodCorrect(quotaRecord) ==
  IF NeedsReset(quotaRecord, now) THEN NewQuotaRecord(now) ELSE quotaRecord

\* C1: under fail-closed, a request whose check hit a storage error is over
\* with the generic 503 of step 5: it was not admitted, no upstream call was
\* made, no increment was started, and no stored record gained any cost.
C1_FailClosedNeverAdmits ==
  \A p \in Procs :
    (hist[p].threw /\ FailureModeOf(p) = "fail-closed") =>
      /\ pc[p] = "done"
      /\ resp[p] = QuotaUnavailableResponse
      /\ resp[p].status = 503
      /\ loc[p].quotaCheckResult = NULL
      /\ ~hist[p].failOpen
      /\ ~hist[p].called
      /\ hist[p].accAttempted = {}
      /\ \A k \in QuotaKeys : kv[k] = kv0[k] \/ kv[k] = NewQuotaRecord(now)

C1_Witness ==
  \E p \in Procs :
    /\ hist[p].threw
    /\ FailureModeOf(p) = "fail-closed"
    /\ loc[p].read["vkey"] # NULL
    /\ pc[p] = "done"

\* C2: under fail-open, a storage error of the check gives an admission with
\* three zero records of the current month; nothing is thrown to the handler
\* and the request is not denied.
C2_FailOpenAdmitsWithZeroRecords ==
  \A p \in Procs :
    (hist[p].threw /\ FailureModeOf(p) = "fail-open") =>
      /\ hist[p].failOpen
      /\ loc[p].quotaCheckResult # NULL
      /\ loc[p].quotaCheckResult.allowed
      /\ loc[p].quotaCheckResult.keyQuotaRecord = NewQuotaRecord(now)
      /\ loc[p].quotaCheckResult.userQuotaRecord = NewQuotaRecord(now)
      /\ loc[p].quotaCheckResult.orgQuotaRecord = NewQuotaRecord(now)
      /\ resp[p].status \notin {429, 503}
      /\ pc[p] \in {"fetch", "acc_get", "acc_reset", "acc_put", "done"}
      /\ pc[p] = "done" => hist[p].called

C2_Witness ==
  \E p \in Procs :
    /\ hist[p].threw
    /\ FailureModeOf(p) = "fail-open"
    /\ loc[p].read["vkey"] # NULL /\ loc[p].read["user"] # NULL
    /\ pc[p] = "fetch"

\* the check of slot p ran to its comparisons without a storage error
Checked(p) == ~hist[p].threw /\ loc[p].quotaCheckResult # NULL

Under(p, s) == loc[p].read[s].month_usage_usd < LimitOf(p, s)

\* C3: when every read of the check succeeds, the request is admitted exactly
\* if each of the three usages read is below its own limit, whatever the
\* limits are; the result carries the three records read, which are the
\* period-correct stored records.
C3_AdmittedIffAllUnder ==
  \A p \in Procs :
    Checked(p) =>
      /\ loc[p].quotaCheckResult.allowed
           <=> (Under(p, "vkey") /\ Under(p, "user") /\ Under(p, "org"))
      /\ loc[p].quotaCheckResult.keyQuotaRecord = loc[p].read["vkey"]
      /\ loc[p].quotaCheckResult.userQuotaRecord = loc[p].read["user"]
      /\ loc[p].quotaCheckResult.orgQuotaRecord = loc[p].read["org"]
      /\ \A s \in Scopes : loc[p].read[s] = PeriodCorrect(kv0[QuotaKey(s, vkey[p])])
      /\ loc[p].quotaCheckResult.allowed <=> resp[p].status # 429

\* admitted although the key's limit exceeds its user's limit
C3_Witness ==
  \E p \in Procs :
    /\ Checked(p)
    /\ loc[p].quotaCheckResult.allowed
    /\ LimitOf(p, "vkey") > LimitOf(p, "user")
    /\ loc[p].read["vkey"].month_usage_usd >= LimitOf(p, "user")
    /\ pc[p] = "fetch"

\* C4: a denial names the first violated scope in the order credential, user,
\* organization, and the response carries that reason.
C4_FirstViolatedScope ==
  \A p \in Procs :
    (Checked(p) /\ ~loc[p].quotaCheckResult.allowed) =>
      LET reason == loc[p].quotaCheckResult.reason
      IN /\ reason = "key_quota_exceeded" <=> ~Under(p, "vkey")
         /\ reason = "user_quota_exceeded" <=> (Under(p, "vkey") /\ ~Under(p, "user"))
         /\ reason = "organization_quota_exceeded"
              <=> (Under(p, "vkey") /\ Under(p, "user") /\ ~Under(p, "org"))
         /\ resp[p].status = 429
         /\ resp[p].type = reason

\* the credential reason although user and organization are over their limits too
C4_Witness ==
  \E p \in Procs :
    /\ Checked(p)
    /\ loc[p].quotaCheckResult.reason = "key_quota_exceeded"
    /\ ~Under(p, "user")
    /\ ~Under(p, "org")
    /\ resp[p].status = 429

\* C5 as claimed: a credential denial has touched neither the user key nor the
\* organization key, and a user denial has not touched the organization key.
C5_ShortCircuit ==
  \A p \in Procs :
    LET userKey == QuotaKey("user", vkey[p])
        orgKey == QuotaKey("org", vkey[p])
    IN /\ resp[p].type = "key_quota_exceeded" =>
            /\ loc[p].read["user"] = NULL /\ kv[userKey] = kv0[userKey]
            /\ loc[p].read["org"] = NULL /\ kv[orgKey] = kv0[orgKey]
       /\ resp[p].type = "user_quota_exceeded" =>
            /\ loc[p].read["org"] = NULL /\ kv[orgKey] = kv0[orgKey]

\* C5, amended: the check reads credential, user and organization in that
\* order, each with its lazy reset, before it compares anything; every denial
\* is returned with all three records read and stored period-correct.
C5_ReadsAllThenCompares ==
  \A p \in Procs :
    /\ (pc[p] \in {"chk_get", "chk_put"} /\ scope[p] = "user") =>
         (loc[p].read["vkey"] # NULL /\ loc[p].quotaCheckResult = NULL)
    /\ (pc[p] \in {"chk_get", "chk_put"} /\ scope[p] = "org") =>
         /\ loc[p].read["vkey"] # NULL
         /\ loc[p].read["user"] # NULL
         /\ loc[p].quotaCheckResult = NULL
    /\ resp[p].status = 429 =>
         \A s \in Scopes :
           /\ loc[p].read[s] # NULL
           /\ kv[QuotaKey(s, vkey[p])] = loc[p].read[s]
           /\ kv[QuotaKey(s, vkey[p])] = PeriodCorrect(kv0[QuotaKey(s, vkey[p])])

\* a credential denial that has reset the absent user record and the stale
\* organization record
C5_Witness ==
  \E p \in Procs :
    /\ resp[p].type = "key_quota_exceeded"
    /\ kv0[QuotaKey("user", vkey[p])] = NULL
    /\ kv[QuotaKey("user", vkey[p])] = NewQuotaRecord(now)
    /\ kv0[QuotaKey("org", vkey[p])] # NULL
    /\ kv0[QuotaKey("org", vkey[p])].current_month # now
    /\ kv[QuotaKey("org", vkey[p])] = NewQuotaRecord(now)

\* the credential record was read, is at or over its limit, and a later store
\* operation of the check failed, under fail-open
OverLimitThenOutage(p) ==
  /\ FailureModeOf(p) = "fail-open"
  /\ hist[p].threw
  /\ loc[p].read["vkey"] # NULL
  /\ loc[p].read["vkey"].month_usage_usd >= LimitOf(p, "vkey")

\* C6 as claimed: such a request is denied with the credential reason and is
\* not admitted with placeholder records.
C6_GenuineViolationStillDenies ==
  \A p \in Procs :
    OverLimitThenOutage(p) =>
      /\ resp[p].type = "key_quota_exceeded"
      /\ ~hist[p].failOpen

\* C6, amended: such a request is admitted with the placeholder records; a
\* denial is answered only when all three reads of the check succeeded.
C6_OutageAdmitsDespiteViolation ==
  \A p \in Procs :
    /\ OverLimitThenOutage(p) =>
         /\ hist[p].failOpen
         /\ loc[p].quotaCheckResult.allowed
         /\ loc[p].quotaCheckResult.keyQuotaRecord = NewQuotaRecord(now)
         /\ loc[p].quotaCheckResult.keyQuotaRecord # loc[p].read["vkey"]
         /\ resp[p].status # 429
    /\ resp[p].status = 429 => (~hist[p].threw /\ \A s \in Scopes : loc[p].read[s] # NULL)

\* an over-limit credential whose request went upstream and is being accrued
C6_Witness ==
  \E p \in Procs :
    /\ OverLimitThenOutage(p)
    /\ hist[p].called
    /\ "vkey" \in hist[p].accApplied

AllDone == \A p \in Procs : pc[p] = "done" /\ left[p] = 0

\* the slots whose increment of key k was written
Appliers(k) ==
  {p \in Procs : \E s \in hist[p].accApplied : QuotaKey(s, vkey[p]) = k}

RECURSIVE SumCost(_)
SumCost(S) ==
  IF S = {} THEN 0
  ELSE LET p == CHOOSE q \in S : TRUE
       IN loc[p].actualCost + SumCost(S \ {p})

NoStoreError == \A p \in Procs : ~hist[p].threw /\ hist[p].accFailed = {}

\* C7 as claimed: once the concurrent increments of a key that held a record
\* of the current month are over, no store operation having failed, the stored
\* cost is the starting cost plus the amounts of all increments written, and
\* the count the starting count plus their number.
C7_NoLostUpdate ==
  \A k \in QuotaKeys :
    (AllDone /\ NoStoreError /\ kv0[k] # NULL) =>
      /\ kv[k].month_usage_usd = kv0[k].month_usage_usd + SumCost(Appliers(k))
      /\ kv[k].request_count = kv0[k].request_count + Cardinality(Appliers(k))

\* C8 as claimed: when no request was admitted by the fail-open placeholder,
\* every stored cost is below its limit plus the largest cost of one request.
C8_OvershootOneRequest ==
  (\A p \in Procs : ~hist[p].failOpen) =>
    \A p \in Procs, s \in Scopes :
      kv[QuotaKey(s, vkey[p])] # NULL =>
        kv[QuotaKey(s, vkey[p])].month_usage_usd < LimitOf(p, s) + MaxCost

\* slot p's increment of scope s is written in this step
Writes(p, s) ==
  /\ pc[p] = "acc_put"
  /\ scope[p] = s
  /\ s \notin hist[p].accApplied
  /\ s \in hist'[p].accApplied

\* C8, amended: the bound of one request's cost holds for a request admitted by
\* a real check whose increment starts from the record its check read (no other
\* write landed in between): what its write stores is below the limit plus its
\* own cost.
C8_OvershootWithoutOverlap ==
  [][\A p \in Procs, s \in Scopes :
       (/\ Writes(p, s)
        /\ ~hist[p].failOpen
        /\ loc[p].quotaRecord = loc[p].read[s]) =>
         kv'[QuotaKey(s, vkey[p])].month_usage_usd < LimitOf(p, s) + loc[p].actualCost]_vars

\* a write that left the key at or over its limit, within the bound, while the
\* other request was running
C8_Witness ==
  \E p \in Procs :
    /\ ~hist[p].failOpen
    /\ "vkey" \in hist[p].accApplied
    /\ loc[p].updatedQuota = Incremented(loc[p].read["vkey"], loc[p].actualCost)
    /\ kv[QuotaKey("vkey", vkey[p])] = loc[p].updatedQuota
    /\ loc[p].updatedQuota.month_usage_usd >= LimitOf(p, "vkey")
    /\ \E q \in Procs \ {p} : pc[q] \in {"fetch", "acc_get", "acc_put"}

\* C9 as claimed: when updateUsageTracking is over and an increment failed,
\* the increments of all three scopes were attempted and the others written.
C9_IndependentBestEffort ==
  \A p \in Procs :
    (hist[p].outcome \in {"resolved", "rejected"} /\ hist[p].accFailed # {}) =>
      /\ hist[p].accAttempted = Scopes
      /\ hist[p].accApplied = Scopes \ hist[p].accFailed

\* C10: updateUsageTracking never rejects, and in every state of the accrual,
\* failed or not, the response is the one built from the upstream answer, the
\* credential record of the admission and the cost.
C10_AccrualNeverFailsRequest ==
  \A p \in Procs :
    hist[p].outcome # "none" =>
      /\ hist[p].outcome # "rejected"
      /\ hist[p].accFailed # {} => (hist[p].outcome = "resolved" /\ pc[p] = "done")
      /\ resp[p].status \in {200, 500}
      /\ resp[p] = enhanceResponseWithUsageHeaders(
                     [ok |-> resp[p].status = 200],
                     loc[p].quotaCheckResult.keyQuotaRecord, vkey[p], loc[p].actualCost)

C10_Witness ==
  \E p \in Procs :
    /\ hist[p].accFailed = {"user"}
    /\ hist[p].accApplied = {"vkey"}
    /\ pc[p] = "done"
    /\ resp[p].status = 200
    /\ resp[p].cost_usd > 0

\* C11 as claimed: the amount handed to the accrual is the cost of the reported
\* usage when the upstream response reports usage, and the pre-call estimate
\* of the request when it reports none.
C11_ActualElseEstimate ==
  \A p \in Procs :
    hist[p].outcome # "none" =>
      loc[p].actualCost =
        IF loc[p].usage # NULL THEN loc[p].usage.cost
        ELSE estimateCostFromRequest(req[p].model, req[p])

\* the accrual of slot p has started
InAccrual(p) ==
  \/ pc[p] \in {"acc_get", "acc_reset", "acc_put"}
  \/ hist[p].accAttempted # {}

\* C12: the upstream call is made only once the check, or the fail-open
\* policy, has returned an admission; the accrual starts, and a cost is added
\* to a record, only after the upstream call has answered; a request denied
\* or answered 503 has caused no upstream call and no accrual.
C12_CheckThenCallThenAccrual ==
  \A p \in Procs :
    /\ (pc[p] = "fetch" \/ hist[p].called) =>
         /\ loc[p].quotaCheckResult # NULL
         /\ loc[p].quotaCheckResult.allowed
         /\ Checked(p) \/ hist[p].failOpen
    /\ InAccrual(p) => (hist[p].called /\ hist[p].outcome # "none")
    /\ resp[p].status \in {429, 503, 400, 401} =>
         (~hist[p].called /\ ~InAccrual(p) /\ pc[p] = "done")
    /\ \A s \in Scopes :
         kv[QuotaKey(s, vkey[p])] \notin {kv0[QuotaKey(s, vkey[p])], NewQuotaRecord(now)} =>
           \E q \in Appliers(QuotaKey(s, vkey[p])) :
             hist[q].called /\ hist[q].outcome # "none"

\* a request admitted by a real check whose cost was added at all three scopes
C12_Witness ==
  \E p \in Procs :
    /\ Checked(p)
    /\ hist[p].called
    /\ hist[p].accApplied = Scopes
    /\ loc[p].actualCost > 0
    /\ pc[p] = "done"

\* C13: from the moment updateUsageTracking is dispatched the client has the
\* proxied response, while all three increments are still to come, and no
\* step of the accrual, successful or failed, touches that response.
C13_ResponseBeforeAccrual ==
  /\ [](\A p \in Procs :
          InAccrual(p) =>
            /\ resp[p].type = "proxied"
            /\ resp[p].status \in {200, 500}
            /\ hist[p].accApplied # Scopes => hist[p].outcome \in {"pending", "resolved"})
  /\ [][\A p \in Procs :
          pc[p] \in {"acc_get", "acc_reset", "acc_put"} =>
            (resp'[p] = resp[p] /\ resp[p].type = "proxied")]_vars

\* the response is out while the first increment has not been written
C13_Witness ==
  \E p \in Procs :
    /\ pc[p] = "acc_put"
    /\ scope[p] = "vkey"
    /\ hist[p].accApplied = {}
    /\ hist[p].outcome = "pending"
    /\ resp[p].status = 200
    /\ resp[p].cost_usd > 0

ZeroRecordNow == [month_usage_usd |-> 0, current_month |-> now, request_count |-> 0]

\* the get*QuotaRecord call of slot p for scope s returns in this step, to the
\* check or to an increment
ReadReturns(p, s) ==
  \/ /\ pc[p] \in {"chk_get", "chk_put"}
     /\ scope[p] = s
     /\ loc[p].read[s] = NULL
     /\ loc'[p].read[s] # NULL
  \/ /\ pc[p] \in {"acc_get", "acc_reset"}
     /\ scope[p] = s
     /\ pc'[p] = "acc_put"

\* what that call returns
ReadResult(p, s) ==
  IF pc[p] \in {"chk_get", "chk_put"} THEN loc'[p].read[s] ELSE loc'[p].quotaRecord

\* C15: at each of the three scopes a read never returns "not found", and a
\* read of a key that holds no record returns the zero record of the current
\* month, which is the record stored under the key when the read returns.
C15_ReadOfAbsentKey ==
  [][\A p \in Procs, s \in Scopes :
       ReadReturns(p, s) =>
         /\ ReadResult(p, s) # NULL
         /\ kv[QuotaKey(s, vkey[p])] = NULL =>
              /\ pc[p] \in {"chk_put", "acc_reset"}
              /\ ReadResult(p, s) = ZeroRecordNow
              /\ kv'[QuotaKey(s, vkey[p])] = ZeroRecordNow]_vars

\* the check has read three keys that held no record
C15_Witness ==
  \E p \in Procs :
    /\ Checked(p)
    /\ pc[p] = "fetch"
    /\ \A s \in Scopes :
         /\ kv0[QuotaKey(s, vkey[p])] = NULL
         /\ loc[p].read[s] = ZeroRecordNow
         /\ kv[QuotaKey(s, vkey[p])] = ZeroRecordNow

\* C16: a read of a key whose record carries another month returns the zero
\* record of the current month and stores it; a read of a key whose record
\* carries the current month returns that record and writes nothing; so the
\* second read of a key by one request (the one of its increment, after the one
\* of its check) returns what the first returned, without a reset.
C16_RolloverOnRead ==
  [][\A p \in Procs, s \in Scopes :
       LET key == QuotaKey(s, vkey[p])
       IN /\ (ReadReturns(p, s) /\ kv[key] # NULL /\ kv[key].current_month # now) =>
               /\ pc[p] \in {"chk_put", "acc_reset"}
               /\ ReadResult(p, s) = ZeroRecordNow
               /\ kv'[key] = ZeroRecordNow
          /\ (ReadReturns(p, s) /\ kv[key] # NULL /\ kv[key].current_month = now) =>
               /\ pc[p] \in {"chk_get", "acc_get"}
               /\ ReadResult(p, s) = kv[key]
               /\ kv' = kv
          /\ (ReadReturns(p, s) /\ pc[p] \in {"acc_get", "acc_reset"}
                /\ loc[p].read[s] # NULL) =>
               /\ pc[p] = "acc_get"
               /\ ReadResult(p, s) = loc[p].read[s]
               /\ kv' = kv]_vars

\* the increment's read of the user key returns, without a write, the zero
\* record the check's read put in place of a stale one
C16_Witness ==
  \E p \in Procs :
    /\ pc[p] = "acc_put"
    /\ scope[p] = "user"
    /\ kv0[QuotaKey("user", vkey[p])] # NULL
    /\ kv0[QuotaKey("user", vkey[p])].current_month # now
    /\ kv0[QuotaKey("user", vkey[p])].month_usage_usd > 0
    /\ loc[p].read["user"] = ZeroRecordNow
    /\ loc[p].quotaRecord = ZeroRecordNow
    /\ kv[QuotaKey("user", vkey[p])] = ZeroRecordNow

\* C17: an increment of a key whose record is absent or carries another month
\* stores, and returns, the record of the current month with the amount as cost
\* and a count of one: nothing of the old month is carried over.
C17_IncrementAcrossBoundary ==
  [][\A p \in Procs, s \in Scopes :
       LET key == QuotaKey(s, vkey[p])
           fresh == [month_usage_usd |-> loc[p].actualCost, current_month |-> now,
                     request_count |-> 1]
       IN /\ (pc[p] = "acc_get" /\ scope[p] = s /\ pc'[p] # "done"
                /\ (kv[key] = NULL \/ kv[key].current_month # now)) =>
               pc'[p] = "acc_reset"
          /\ (pc[p] = "acc_reset" /\ scope[p] = s /\ pc'[p] # "done") =>
               (kv'[key] = ZeroRecordNow /\ loc'[p].quotaRecord = ZeroRecordNow)
          /\ (Writes(p, s) /\ (kv0[key] = NULL \/ kv0[key].current_month # now)) =>
               /\ kv'[key] = fresh
               /\ s = "vkey" => loc'[p].updatedQuota = fresh]_vars

\* the increment itself crossed the boundary: the check had not read the key,
\* whose record of last month held usage
C17_Witness ==
  \E p \in Procs :
    /\ hist[p].failOpen
    /\ loc[p].read["vkey"] = NULL
    /\ kv0[QuotaKey("vkey", vkey[p])] # NULL
    /\ kv0[QuotaKey("vkey", vkey[p])].current_month # now
    /\ kv0[QuotaKey("vkey", vkey[p])].month_usage_usd > 0
    /\ "vkey" \in hist[p].accApplied
    /\ loc[p].actualCost > 0
    /\ loc[p].updatedQuota = [month_usage_usd |-> loc[p].actualCost, current_month |-> now,
                               request_count |-> 1]

Stale(quotaRecord) == quotaRecord # NULL /\ quotaRecord.current_month # now

\* C18: when reads of a key whose record is stale overlap, and no increment
\* runs, every read that returns gives the zero record of the current month,
\* the key holds either its stale record or that zero record all along, and it
\* holds the zero record once a read has returned.
C18_ConcurrentResetsSafe ==
  \A p \in Procs, s \in Scopes :
    LET key == QuotaKey(s, vkey[p])
    IN Stale(kv0[key]) =>
         /\ kv[key] \in {kv0[key], ZeroRecordNow}
         /\ loc[p].read[s] # NULL =>
              (loc[p].read[s] = ZeroRecordNow /\ kv[key] = ZeroRecordNow)

\* one read of the key has returned its zero record while the other, which saw
\* the stale record, is about to write its own
C18_Witness ==
  \E p \in Procs, q \in Procs :
    /\ p # q
    /\ vkey[p].key_hash = vkey[q].key_hash
    /\ Stale(kv0[QuotaKey("vkey", vkey[p])])
    /\ loc[p].read["vkey"] = ZeroRecordNow
    /\ kv[QuotaKey("vkey", vkey[p])] = ZeroRecordNow
    /\ pc[q] = "chk_put"
    /\ scope[q] = "vkey"

RECURSIVE SumSeq(_)
SumSeq(w) == IF w = <<>> THEN 0 ELSE Head(w) + SumSeq(Tail(w))

\* the amounts the increments of key k written so far have added
AccruedOn(k) ==
  LET amount(p) == IF \E s \in Scopes : QuotaKey(s, vkey[p]) = k
                     THEN SumSeq(hist[p].written[CHOOSE s \in Scopes : QuotaKey(s, vkey[p]) = k])
                     ELSE 0
  IN amount("p1") + amount("p2")

\* the cost of the current month the key holds
StoredCost(k) ==
  IF kv[k] = NULL \/ kv[k].current_month # now THEN 0 ELSE kv[k].month_usage_usd

\* the increments written so far are all of one slot, whose requests run one
\* after the other; the other slot has not started an increment
IncrementsOfOneSlot ==
  \E q \in Procs :
    \A r \in Procs \ {q} :
      /\ \A s \in Scopes : hist[r].written[s] = <<>>
      /\ ~InAccrual(r)

\* no store operation of any request has failed
NoStoreErrorEver == \A p \in Procs : ~hist[p].failed

\* C19 as claimed: when the zero-record write of a lazy reset races with
\* increments of the key (which do not race with each other, and no store
\* operation fails), what the stored record misses of the amounts written is
\* at most the largest cost of one request.
C19_ResetLosesAtMostOneRequest ==
  \A k \in QuotaKeys :
    (Stale(kv0[k]) /\ NoStoreErrorEver /\ IncrementsOfOneSlot) =>
      AccruedOn(k) - StoredCost(k) <= MaxCost

\* C20: when the increments of a key run one after another, with no other
\* writer and no change of month, then after N increments of one amount a the
\* key holds the starting cost plus N * a and the starting count plus N, the
\* start being the stored record, or the zero record when that one was absent
\* or stale; in general the cost is the starting cost plus the sum of the
\* amounts.
C20_SequentialAdditivity ==
  \A p \in Procs, s \in Scopes :
    LET key == QuotaKey(s, vkey[p])
        w == hist[p].written[s]
        N == Len(w)
        start == PeriodCorrect(kv0[key])
    IN (N >= 1 /\ \A q \in Procs \ {p} : left[q] = 0 /\ pc[q] = "idle") =>
         /\ kv[key].request_count = start.request_count + N
         /\ kv[key].month_usage_usd = start.month_usage_usd + SumSeq(w)
         /\ (\A i \in 1..N : w[i] = w[1]) =>
              kv[key].month_usage_usd = start.month_usage_usd + N * w[1]
         /\ kv[key].current_month = now

\* MaxSeq increments of one positive amount on a key that held usage
C20_Witness ==
  \E p \in Procs :
    LET w == hist[p].written["vkey"]
        key == QuotaKey("vkey", vkey[p])
    IN /\ Len(w) = MaxSeq
       /\ \A i \in 1..MaxSeq : w[i] = MaxCost
       /\ kv0[key] # NULL
       /\ kv0[key].current_month = now
       /\ kv0[key].month_usage_usd > 0
       /\ kv[key].month_usage_usd = kv0[key].month_usage_usd + MaxSeq * MaxCost

\* the usage of the current month the key of scope s held when the request of
\* slot p arrived
StoredUsage(p, s) == PeriodCorrect(kv0[QuotaKey(s, vkey[p])]).month_usage_usd

ScopeOfReason(reason) ==
  CASE reason = "key_quota_exceeded" -> "vkey"
    [] reason = "user_quota_exceeded" -> "user"
    [] reason = "organization_quota_exceeded" -> "org"

\* the used amount, the limit and the remaining amount a denial reports
DenialDetails(response) ==
  IF response.type = "organization_quota_exceeded"
    THEN [used |-> response.org_usage_usd, limit |-> response.org_budget_usd,
          remaining |-> response.org_remaining_usd]
    ELSE [used |-> response.usage_usd, limit |-> response.limit_usd,
          remaining |-> response.remaining_usd]

\* C22: a check that ends in a denial is answered 429 with the denial reason
\* as error type and with the used amount of the record of the scope the
\* reason names, that scope's limit, and their difference as remaining, which
\* is never positive and is 0 when the used amount equals the limit; no other
\* response is a 429.
C22_DenialDetails ==
  \A p \in Procs :
    /\ (Checked(p) /\ ~loc[p].quotaCheckResult.allowed) =>
         (resp[p].status = 429 /\ resp[p].type = loc[p].quotaCheckResult.reason)
    /\ resp[p].status = 429 =>
         LET s == ScopeOfReason(resp[p].type)
             details == DenialDetails(resp[p])
         IN /\ Checked(p)
            /\ resp[p].type = loc[p].quotaCheckResult.reason
            /\ details.used = loc[p].read[s].month_usage_usd
            /\ details.used = StoredUsage(p, s)
            /\ details.limit = LimitOf(p, s)
            /\ details.remaining = details.limit - details.used
            /\ details.remaining <= 0
            /\ details.used = details.limit => details.remaining = 0
            /\ resp[p].current_month = now

\* a user denial that reports a negative remaining amount while the key is
\* under its own limit
C22_Witness ==
  \E p \in Procs :
    /\ resp[p].status = 429
    /\ resp[p].type = "user_quota_exceeded"
    /\ resp[p].remaining_usd < 0
    /\ resp[p].usage_usd # loc[p].read["vkey"].month_usage_usd
    /\ pc[p] = "done"

StoredCount(k) ==
  IF kv[k] = NULL \/ kv[k].current_month # now THEN 0 ELSE kv[k].request_count

RECURSIVE SumStoredCost(_)
SumStoredCost(K) ==
  IF K = {} THEN 0
  ELSE LET k == CHOOSE x \in K : TRUE IN StoredCost(k) + SumStoredCost(K \ {k})

RECURSIVE SumStoredCount(_)
SumStoredCount(K) ==
  IF K = {} THEN 0
  ELSE LET k == CHOOSE x \in K : TRUE IN StoredCount(k) + SumStoredCount(K \ {k})

\* the quota keys of the credentials of user u, and of the users of
\* organization o
KeysOfUser(u) == {<<"vkey", vkey[p].key_hash>> : p \in {q \in Procs : vkey[q].user = u}}

UsersOfOrg(o) == {<<"user", vkey[p].user>> : p \in {q \in Procs : vkey[q].org_id = o}}

Quiescent == \A p \in Procs : pc[p] \in {"idle", "done"}

\* C24: between requests that are processed one at a time from the start of
\* a month, no store operation failing, the user record holds the sum of the
\* costs and of the request counts of the user's credentials, and the
\* organization record the sums over its users, absent and stale records
\* counting as zero.
C24_Aggregation ==
  (Quiescent /\ NoStoreErrorEver) =>
    /\ \A u \in Users :
         /\ StoredCost(<<"user", u>>) = SumStoredCost(KeysOfUser(u))
         /\ StoredCount(<<"user", u>>) = SumStoredCount(KeysOfUser(u))
    /\ \A o \in Orgs :
         /\ StoredCost(<<"org", o>>) = SumStoredCost(UsersOfOrg(o))
         /\ StoredCount(<<"org", o>>) = SumStoredCount(UsersOfOrg(o))

\* both keys of one user have accrued cost, one of them twice
C24_Witness ==
  /\ Quiescent
  /\ vkey["p1"].user = vkey["p2"].user
  /\ StoredCost(<<"vkey", "k1">>) > 0
  /\ StoredCost(<<"vkey", "k2">>) > 0
  /\ StoredCount(<<"user", "u1">>) >= 3
  /\ StoredCost(<<"user", "u1">>) = StoredCost(<<"vkey", "k1">>) + StoredCost(<<"vkey", "k2">>)

\* a PATCH that set the status of key k to revoked has answered 200
RevokeCompleted(k) ==
  \E a \in Admins :
    /\ admin[a].pc = "done"
    /\ admin[a].status = 200
    /\ admin[a].body.status = "revoked"
    /\ admin[a].keyHash = k

\* a request presenting key k passes through the middleware in this step
Authenticates(p, k) ==
  /\ pc[p] \in {"idle", "done"}
  /\ left'[p] = left[p] - 1
  /\ hist'[p].keyHash = k

\* C25 as claimed: a request that presents a key after a PATCH revoking it has
\* completed is answered 401 by the middleware (when the read of the key's
\* config does not fail) and goes no further; the config and the usage record
\* of a revoked key stay stored.
C25_RevokedKeyRejected ==
  /\ [][\A p \in Procs, k \in KeyHashes :
          (Authenticates(p, k) /\ RevokeCompleted(k) /\ resp'[p].status # 500) =>
            (resp'[p].status = 401 /\ pc'[p] = "done")]_vars
  /\ [](\A k \in KeyHashes :
          RevokeCompleted(k) =>
            (vkeyConfigs[k] # NULL /\ kv[<<"vkey", k>>] # NULL))

\* C26: for a model of the pricing table the cost is input tokens times the
\* input rate plus output tokens times the output rate, rates per million
\* tokens (amounts in 10^-8 USD, so a rate of r/100 USD per million tokens is r
\* per token): one million tokens each way cost the sum of the two rates, and
\* no tokens cost nothing.
C26_CostFromUsageFormula ==
  (calc.pc = "returned" /\ calc.model \in PricedModels) =>
    LET input_rate == MODEL_PRICING(calc.model).input_cost_per_1m_tokens
        output_rate == MODEL_PRICING(calc.model).output_cost_per_1m_tokens
    IN /\ calc.result = calc.inputTokens * input_rate + calc.outputTokens * output_rate
       /\ (calc.inputTokens = 1000000 /\ calc.outputTokens = 1000000) =>
            calc.result = (input_rate + output_rate) * 1000000
       /\ (calc.inputTokens = 0 /\ calc.outputTokens = 0) => calc.result = 0

C26_Witness ==
  /\ calc.pc = "returned"
  /\ calc.model = <<"openai", "gpt-4o-mini">>
  /\ calc.inputTokens = 1000000
  /\ calc.outputTokens = 1000000
  /\ calc.result = 75000000

RECURSIVE Largest(_)
Largest(w) ==
  IF w = <<>> THEN 0
  ELSE LET m == Largest(Tail(w)) IN IF Head(w) >= m THEN Head(w) ELSE m

\* no check was ever answered by the placeholder of the fail-open catch
NoPlaceholderEver == \A p \in Procs : ~hist[p].placeholder

\* the request of slot p is handed to the upstream in this step
Forwarded(p) == ~hist[p].called /\ hist'[p].called

\* every scope of the request of slot p holds less than its limit
AllUnderStored(p) ==
  \A s \in Scopes : StoredCost(QuotaKey(s, vkey[p])) < LimitOf(p, s)

\* C28 as claimed: with requests processed one at a time the cost stored on a
\* scope stays below the limit of the scope plus the largest single cost added,
\* and a request is never let through while one of its scopes holds its limit
\* or more.
C28_SerialBoundAlways ==
  /\ [](\A p \in Procs, s \in Scopes :
          hist[p].written[s] # <<>> =>
            StoredCost(QuotaKey(s, vkey[p])) < LimitOf(p, s) + Largest(hist[p].written[s]))
  /\ [][\A p \in Procs : Forwarded(p) => AllUnderStored(p)]_vars

\* C28, amended: the same, for the runs in which no check is answered by the
\* placeholder of the fail-open catch, and for the requests whose check is
\* not answered by it.
C28_SerialBound ==
  /\ [](\A p \in Procs, s \in Scopes :
          (NoPlaceholderEver /\ hist[p].written[s] # <<>>) =>
            StoredCost(QuotaKey(s, vkey[p])) < LimitOf(p, s) + Largest(hist[p].written[s]))
  /\ [][\A p \in Procs : (Forwarded(p) /\ ~hist[p].failOpen) => AllUnderStored(p)]_vars

\* a scope went over its limit by the largest amount possible and the next
\* request was denied
C28_Witness ==
  \E p \in Procs, s \in Scopes :
    /\ NoPlaceholderEver
    /\ hist[p].written[s] # <<>>
    /\ StoredCost(QuotaKey(s, vkey[p])) = LimitOf(p, s) + MaxCost - 1
    /\ pc[p] = "done"
    /\ resp[p].status = 429
    /\ ~hist[p].called

\* the number of increments of key k written so far
WrittenOn(k) ==
  LET number(p) == IF \E s \in Scopes : QuotaKey(s, vkey[p]) = k
                     THEN Len(hist[p].written[CHOOSE s \in Scopes : QuotaKey(s, vkey[p]) = k])
                     ELSE 0
  IN number("p1") + number("p2")

\* the slots whose accrual has started its increment of key k
Starters(k) ==
  {p \in Procs : \E s \in hist[p].accAttempted : QuotaKey(s, vkey[p]) = k}

\* the cost and the count of the current month key k held at the start
StartCost(k) ==
  IF kv0[k] = NULL \/ kv0[k].current_month # now THEN 0 ELSE kv0[k].month_usage_usd

StartCount(k) ==
  IF kv0[k] = NULL \/ kv0[k].current_month # now THEN 0 ELSE kv0[k].request_count

\* C29: whatever the interleaving of the increments and of the lazy resets of a
\* key within a month, the cost stored is at most the cost the month started
\* with plus the amounts of the increments written on the key, each counted
\* once, which is at most the sum of the costs of the accruals started on it;
\* the count stored is at most the starting count plus the number of the
\* increments written, which is at most the number of accruals started.
C29_UndercountOnly ==
  \A k \in QuotaKeys :
    /\ StoredCost(k) <= StartCost(k) + AccruedOn(k)
    /\ AccruedOn(k) <= SumCost(Starters(k))
    /\ StoredCount(k) <= StartCount(k) + WrittenOn(k)
    /\ WrittenOn(k) <= Cardinality(Starters(k))

\* two accruals that overlapped have both written their increment of one key,
\* and the key holds less than the two costs together
C29_Witness ==
  \E k \in QuotaKeys :
    /\ Appliers(k) = Procs
    /\ \A p \in Procs : pc[p] = "done" /\ loc[p].actualCost > 0
    /\ StoredCost(k) < AccruedOn(k)
    /\ StoredCount(k) < WrittenOn(k)

\* the request of slot p takes a step
StepOf(p) == <<pc[p], scope[p], loc[p]>> # <<pc'[p], scope'[p], loc'[p]>>

\* the request of slot p has not been admitted
BeforeAdmission(p) == pc[p] \in {"org_config", "user_config", "chk_get", "chk_put"}

\* C30: a request answered 429 or 503 has caused no upstream call and no
\* accrual; up to that answer no step of the request changes the cost or the
\* count of the current month of any key, and what it writes is a zero record
\* in the place of an absent or stale one.
C30_DeniedRequestAccruesNothing ==
  /\ [](\A p \in Procs :
          resp[p].status \in {429, 503} =>
            /\ pc[p] = "done"
            /\ ~hist[p].called
            /\ hist[p].accAttempted = {})
  /\ [][\A p \in Procs :
          (BeforeAdmission(p) /\ StepOf(p)) =>
            \A k \in QuotaKeys :
              /\ StoredCost(k)' = StoredCost(k)
              /\ StoredCount(k)' = StoredCount(k)
              /\ kv'[k] # kv[k] =>
                   /\ kv[k] = NULL \/ kv[k].current_month # now
                   /\ kv'[k] = [month_usage_usd |-> 0, current_month |-> now,
                                request_count |-> 0]]_vars

\* a request was denied after its check had replaced a stale record by a zero
\* record, the other records being as they were
C30_Witness ==
  \E p \in Procs, s \in Scopes :
    LET k == QuotaKey(s, vkey[p])
    IN /\ pc[p] = "done"
       /\ resp[p].status = 429
       /\ kv0[k] # NULL
       /\ kv0[k].current_month # now
       /\ kv[k] = [month_usage_usd |-> 0, current_month |-> now, request_count |-> 0]
       /\ \A j \in QuotaKeys \ {k} : kv[j] = kv0[j]
       /\ \A q \in Procs : ~hist[q].called

\* C31: when the upstream answers an admitted request, whatever the status,
\* updateUsageTracking is started once, beginning with the credential scope,
\* and is started by nothing else; for an answer that is not a success the
\* amount is 0, and every increment the accrual writes stores the cost it read
\* plus the amount and the count it read plus one.
C31_OneAccrualPerAnswer ==
  /\ [][\A p \in Procs :
          /\ (Forwarded(p) /\ resp'[p].type = "proxied") =>
                /\ pc'[p] = "acc_get"
                /\ scope'[p] = "vkey"
                /\ hist'[p].accAttempted = {}
                /\ resp'[p].status # 200 => loc'[p].actualCost = 0
          /\ (pc[p] # "acc_get" /\ pc'[p] = "acc_get" /\ scope'[p] = "vkey") =>
                Forwarded(p)
          /\ \A s \in Scopes :
                Writes(p, s) =>
                  LET key == QuotaKey(s, vkey[p])
                  IN /\ s \in hist[p].accAttempted
                     /\ kv'[key].month_usage_usd
                          = loc[p].quotaRecord.month_usage_usd + loc[p].actualCost
                     /\ kv'[key].request_count = loc[p].quotaRecord.request_count + 1
                     /\ resp[p].status # 200 =>
                          kv'[key].month_usage_usd = loc[p].quotaRecord.month_usage_usd]_vars
  /\ [](\A p \in Procs : hist[p].accApplied \subseteq hist[p].accAttempted)

\* an answer that was not a success: nothing was added to the cost of any of
\* the three records and each counts one request more
C31_Witness ==
  \E p \in Procs :
    /\ pc[p] = "done"
    /\ resp[p].type = "proxied"
    /\ resp[p].status # 200
    /\ hist[p].accApplied = Scopes
    /\ \A s \in Scopes :
         LET key == QuotaKey(s, vkey[p])
         IN /\ kv0[key] # NULL
            /\ kv0[key].current_month = now
            /\ kv[key].month_usage_usd = kv0[key].month_usage_usd
            /\ kv[key].request_count = kv0[key].request_count + 1

\* the check of slot p is answered by the catch of performQuotaCheck in this step
CheckCaught(p) == ~hist[p].threw /\ hist'[p].threw

\* C32: the catch of performQuotaCheck writes nothing to the store, whichever
\* way it decides; the zero records of a fail-open admission exist only in the
\* result of the check: the accrual of the admitted request reads the store
\* again, no step of it lowers the cost or the count a key holds for the
\* month, and each increment stores the cost the key really holds plus the
\* amount of the request.
C32_PlaceholderNotPersisted ==
  [][\A p \in Procs :
       /\ CheckCaught(p) => kv' = kv
       /\ (hist[p].failOpen /\ StepOf(p)) =>
            \A k \in QuotaKeys :
              /\ StoredCost(k)' >= StoredCost(k)
              /\ StoredCount(k)' >= StoredCount(k)
       /\ \A s \in Scopes :
            (hist[p].failOpen /\ Writes(p, s)) =>
              LET key == QuotaKey(s, vkey[p])
              IN /\ kv'[key].month_usage_usd = StoredCost(key) + loc[p].actualCost
                 /\ kv'[key].request_count = StoredCount(key) + 1]_vars

\* a request admitted by the fail-open catch while every record held usage:
\* after its accrual each record holds that usage plus the cost
C32_Witness ==
  \E p \in Procs :
    /\ hist[p].failOpen
    /\ pc[p] = "done"
    /\ hist[p].accApplied = Scopes
    /\ loc[p].actualCost > 0
    /\ loc[p].quotaCheckResult.keyQuotaRecord.month_usage_usd = 0
    /\ \A s \in Scopes :
         LET key == QuotaKey(s, vkey[p])
         IN /\ kv0[key] # NULL
            /\ kv0[key].current_month = now
            /\ kv0[key].month_usage_usd > 0
            /\ kv[key].month_usage_usd = kv0[key].month_usage_usd + loc[p].actualCost

\* the handler of slot p passes steps 3 and 4 in this step
Validates(p) == pc[p] = "user_config" /\ StepOf(p)

\* C33: when the read of the organization config or of the user config has
\* failed, the request is answered 503 (organization_error, user_error) at
\* step 3, whatever the failure mode of the organization: no quota record is
\* read or written for it and no upstream call is made.
C33_ConfigReadFailure ==
  /\ [][\A p \in Procs :
          (Validates(p)
             /\ (loc[p].organizationConfig = NULL \/ loc'[p].userConfig = NULL)) =>
            /\ resp'[p].status = 503
            /\ resp'[p].type = IF loc[p].organizationConfig = NULL
                                 THEN "organization_error" ELSE "user_error"
            /\ pc'[p] = "done"
            /\ kv' = kv]_vars
  /\ [](\A p \in Procs :
          resp[p].type \in {"organization_error", "user_error"} =>
            /\ pc[p] = "done"
            /\ loc[p].quotaCheckResult = NULL
            /\ \A s \in Scopes : loc[p].read[s] = NULL
            /\ ~hist[p].threw
            /\ ~hist[p].called
            /\ hist[p].accAttempted = {}
            /\ kv = kv0)

\* the read of the user config failed for a request of an organization in
\* fail-open mode, and the request was answered 503
C33_Witness ==
  \E p \in Procs :
    /\ pc[p] = "done"
    /\ orgConfigs[vkey[p].org_id].failure_mode = "fail-open"
    /\ loc[p].organizationConfig # NULL
    /\ loc[p].userConfig = NULL
    /\ resp[p].status = 503
    /\ resp[p].type = "user_error"

\* C34: when a store operation of the check fails, the request is admitted
\* exactly if the failure_mode of the organization is "fail-open"; for
\* "fail-closed", for no value and for any other value the error is passed on
\* and the request is answered 503.
C34_DefaultClosed ==
  /\ [][\A p \in Procs :
          CheckCaught(p) =>
            IF orgConfigs[vkey[p].org_id].failure_mode = "fail-open"
              THEN /\ pc'[p] = "fetch"
                   /\ hist'[p].failOpen
                   /\ resp'[p] = [status |-> 0, type |-> "none"]
              ELSE /\ pc'[p] = "done"
                   /\ ~hist'[p].failOpen
                   /\ resp'[p] = [status |-> 503, type |-> "service_error"]]_vars
  /\ [](\A p \in Procs :
          (hist[p].threw /\ hist[p].called) =>
            orgConfigs[vkey[p].org_id].failure_mode = "fail-open")

\* a store failure during the check of an organization whose config carries
\* no failure_mode: 503
C34_Witness ==
  \E p \in Procs :
    /\ orgConfigs[vkey[p].org_id].failure_mode = "undefined"
    /\ hist[p].threw
    /\ pc[p] = "done"
    /\ resp[p] = [status |-> 503, type |-> "service_error"]

ValidationErrors ==
  {"organization_error", "user_error", "invalid_model_format", "provider_key_missing"}

\* C35: a request whose organization config or user config is missing, whose
\* model is not of the form provider/model, or whose organization has no key
\* for the provider, is answered at steps 3 and 4 (503, 503, 400, 401, in that
\* order of precedence); a request so answered has read and written no quota
\* record and has not been forwarded.
C35_ValidationBeforeQuota ==
  /\ [][\A p \in Procs :
          Validates(p) =>
            LET organizationConfig == loc[p].organizationConfig
                userConfig == loc'[p].userConfig
                model == req[p].model
                rejected == \/ organizationConfig = NULL
                            \/ userConfig = NULL
                            \/ Len(model) < 2
                            \/ model[1] \notin organizationConfig.provider_keys
            IN /\ rejected =>
                    /\ pc'[p] = "done"
                    /\ kv' = kv
                    /\ resp'[p] =
                         (IF organizationConfig = NULL
                            THEN [status |-> 503, type |-> "organization_error"]
                          ELSE IF userConfig = NULL
                            THEN [status |-> 503, type |-> "user_error"]
                          ELSE IF Len(model) < 2
                            THEN [status |-> 400, type |-> "invalid_model_format"]
                          ELSE [status |-> 401, type |-> "provider_key_missing"])
               /\ ~rejected => (pc'[p] = "chk_get" /\ resp'[p].status = 0)]_vars
  /\ [](\A p \in Procs :
          resp[p].type \in ValidationErrors =>
            /\ pc[p] = "done"
            /\ loc[p].quotaCheckResult = NULL
            /\ \A s \in Scopes : loc[p].read[s] = NULL
            /\ ~hist[p].threw
            /\ ~hist[p].called
            /\ hist[p].accAttempted = {}
            /\ kv = kv0)

\* the configs are stored and the model is well formed, but the organization
\* has no key for its provider: 401 while a stale record is left as it was
C35_Witness ==
  \E p \in Procs :
    /\ pc[p] = "done"
    /\ resp[p] = [status |-> 401, type |-> "provider_key_missing"]
    /\ loc[p].organizationConfig # NULL
    /\ loc[p].userConfig # NULL
    /\ kv[QuotaKey("vkey", vkey[p])] = StaleRecord

\* the answers of the handler
HandlerResponses ==
  {[status |-> 503, type |-> "organization_error"],
   [status |-> 503, type |-> "user_error"],
   [status |-> 400, type |-> "invalid_model_format"],
   [status |-> 401, type |-> "provider_key_missing"],
   [status |-> 503, type |-> "service_error"],
   [status |-> 502, type |-> "proxy_error"]}

Answered(p) == resp[p].status # 0

\* C36: when every store operation and the upstream call eventually return or
\* throw, a request that has arrived is eventually answered; the answer is a
\* validation error, a quota denial (429), quota service unavailable (503), a
\* proxy error (502) or the proxied answer of the upstream, and once given it
\* is not replaced, whatever the accrual does afterwards.
C36_EveryRequestAnswered ==
  /\ \A p \in Procs : (pc[p] = "org_config") ~> Answered(p)
  /\ [](\A p \in Procs : pc[p] = "done" => Answered(p))
  /\ [](\A p \in Procs :
          Answered(p) =>
            \/ resp[p] \in HandlerResponses
            \/ resp[p].status = 429
            \/ resp[p].type = "proxied")
  /\ [][\A p \in Procs : Answered(p) => resp'[p] = resp[p]]_vars

\* the proxied answer was given and the accrual that followed failed
C36_Witness ==
  \E p \in Procs :
    /\ pc[p] = "done"
    /\ resp[p].type = "proxied"
    /\ hist[p].accFailed # {}

(***************************************************************************)
(* The admin operations on a populated store                               *)
(***************************************************************************)
\* organization o1 with user u1 and key k1 of u1; user u2 and key k2 (of u1)
\* may be stored too; what is stored has its quota record or nothing has.  No
\* chat request arrives.
InitAdmin ==
  /\ orgConfigs = [o \in Orgs |-> OrgConfig("fail-closed", MaxLimit)]
  /\ \E u2 \in {NULL, UserConfig("o1", MaxLimit)} :
       userConfigs = [u \in Users |-> IF u = "u1" THEN UserConfig("o1", MaxLimit) ELSE u2]
  /\ \E k2 \in {NULL, VKey("k2", MaxLimit)} :
       vkeyConfigs = [k \in KeyHashes |-> IF k = "k1" THEN VKey("k1", MaxLimit) ELSE k2]
  /\ vkeyIds = [id \in KeyIds |->
                  IF \E k \in KeyHashes : vkeyConfigs[k] # NULL /\ vkeyConfigs[k].key_id = id
                    THEN CHOOSE k \in KeyHashes : KeyIdOf(k) = id
                    ELSE "none"]
  /\ \E used \in BOOLEAN :
       kv = [k \in QuotaKeys |->
               IF used /\ (\/ k[1] = "org"
                           \/ k[1] = "user" /\ userConfigs[k[2]] # NULL
                           \/ k[1] = "vkey" /\ vkeyConfigs[k[2]] # NULL)
                 THEN [month_usage_usd |-> 1, current_month |-> ThisMonth, request_count |-> 1]
                 ELSE NULL]
  /\ now = ThisMonth
  /\ kv0 = kv
  /\ vkey = [p \in Procs |-> VKey("k1", MaxLimit)]
  /\ pc = [p \in Procs |-> "idle"]
  /\ scope = [p \in Procs |-> "none"]
  /\ req = [p \in Procs |-> CHOOSE payload \in Payloads :
                                 payload.model = <<"openai", "gpt-4o-mini">>]
  /\ loc = [p \in Procs |-> NoLoc]
  /\ resp = [p \in Procs |-> NoResp]
  /\ hist = [p \in Procs |-> NoHist]
  /\ left = [p \in Procs |-> 0]
  /\ admin = [a \in Admins |-> NoAdmin]
  /\ calc = NoCalc

\* each admin slot serves one request; the requests overlap or follow one
\* another
NextAdmin ==
  \E a \in Admins :
    \/ PatchGetId(a)
    \/ PatchGetConfig(a)
    \/ PatchPut(a)
    \/ PatchStoreError(a)
    \/ CreateKeyGetOrg(a)
    \/ CreateKeyGetUser(a)
    \/ CreateKeyPutConfig(a)
    \/ CreateKeyPutId(a)
    \/ DeleteKeyGetId(a)
    \/ DeleteKeyGetConfig(a)
    \/ DeleteKeyDelete(a)
    \/ CreateUserGetOrg(a)
    \/ CreateUserGetUser(a)
    \/ CreateUserPut(a)
    \/ DeleteUserGet(a)
    \/ DeleteUserDelete(a)
    \/ DeleteOrgGet(a)
    \/ DeleteOrgListVkeys(a)
    \/ DeleteOrgVkeyGet(a)
    \/ DeleteOrgVkeyDelete(a)
    \/ DeleteOrgListUsers(a)
    \/ DeleteOrgUserGet(a)
    \/ DeleteOrgUserDelete(a)
    \/ DeleteOrgDelete(a)
    \/ AdminStoreError(a)

SpecAdmin == InitAdmin /\ [][NextAdmin]_vars

\* no admin request is under way, and none was cut short by a store failure
AdminQuiet ==
  \A a \in Admins : admin[a].pc \in {"idle", "done"} /\ admin[a].status # 500

\* C37: between admin requests, every stored virtual-key config names a user
\* that has a stored user config, and that user's org_id is the key's org_id.
C37_KeyUserIntegrity ==
  AdminQuiet =>
    \A k \in KeyHashes :
      vkeyConfigs[k] # NULL =>
        /\ userConfigs[vkeyConfigs[k].user] # NULL
        /\ userConfigs[vkeyConfigs[k].user].org_id = vkeyConfigs[k].org_id

\* nothing that belongs to the organization is stored (every key, user and
\* quota record of the store belongs to o1)
NothingLeftOf(org_id) ==
  /\ \A k \in KeyHashes : vkeyConfigs[k] = NULL \/ vkeyConfigs[k].org_id # org_id
  /\ \A id \in KeyIds : vkeyIds[id] = "none"
  /\ \A u \in Users : userConfigs[u] = NULL \/ userConfigs[u].org_id # org_id
  /\ \A k \in QuotaKeys : kv[k] = NULL

\* the DELETE of the organization has answered 200 and no other admin request
\* has arrived
DeletedAlone(a) ==
  /\ admin[a].op = "delete_org"
  /\ admin[a].pc = "done"
  /\ admin[a].status = 200
  /\ \A b \in Admins \ {a} : admin[b].pc = "idle"

\* C38: once DELETE of an organization has answered 200, with no other request
\* beside it, no key config, key-id index entry, user config or quota record
\* of that organization is stored, however many keys and users there were.
C38_CascadeComplete ==
  \A a \in Admins : DeletedAlone(a) => NothingLeftOf(admin[a].param)

====
